---- MODULE Spec2Model ----
(***************************************************************************)
(* A model of the LLVM lowering backend of cu (src/src/llvm.rs).           *)
(*                                                                         *)
(* Spec        the statement / control-flow builder: build_func_body and   *)
(*             StmtBuilder::build_stmt lowering one function body into     *)
(*             basic blocks.  The body is not fixed in advance: each step  *)
(*             lowers the next statement of the statement list the builder *)
(*             is currently iterating, chosen from every statement kind,   *)
(*             so every body within the bounds is lowered.  The recursion  *)
(*             of build_stmt is the explicit call stack `frames`.          *)
(* SpecLayout  the layout builder and the aggregate constructors: a type   *)
(*             table holding one struct or enum type, its lowered layout   *)
(*             (TypeBuilder::new), and one storage location of that type   *)
(*             that struct literals and enum constructors are lowered into *)
(*             and that Field / EnumField / EnumTag read, byte by byte.    *)
(* SpecAbi     the calling convention: func_type on a function type and    *)
(*             build_call on a call of a function of that type.            *)
(***************************************************************************)
EXTENDS Integers, Sequences, FiniteSets, TLC

\* ------------------------------------------------------------------ bounds
\* Statements lowered in one function body.
MaxStmts == 3
\* Nesting depth of If / While / For (depth of the build_stmt recursion).
MaxDepth == 3

\* ------------------------------------------------------------------ types
\* TypeKind (Type::kind() of the ir module): the classification build_expr,
\* func_type and Stmt::Return dispatch on.
TypeKind == {"Unit", "Scalar", "Aggregate"}

\* Option<LLVMValueRef>: None, or Some(a symbolic backend value).
None == "None"

\* ------------------------------------------------------------ instructions
\* One backend instruction.  t / f are block numbers (branch targets) or a
\* field index (store); p names the value or address an instruction uses.
Instr(op, t, f, p) == [op |-> op, t |-> t, f |-> f, p |-> p]

LLVMBuildBr(dest) == Instr("br", dest, 0, "")
LLVMBuildCondBr(then, else) == Instr("condbr", then, else, "cond")
LLVMBuildRetVoid == Instr("retvoid", 0, 0, "")
LLVMBuildRet(v) == Instr("ret", 0, 0, v)
LLVMBuildAlloca(name) == Instr("alloca", 0, 0, name)
\* LLVMBuildStructGEP2(dst, i) followed by LLVMBuildStore through it.
StoreField(dst, i) == Instr("store", i, 0, dst)
LLVMBuildStore(dst) == Instr("store", 0, 0, dst)

IsTerminator(ins) == ins.op \in {"br", "condbr", "ret", "retvoid"}

\* LLVMGetBasicBlockTerminator(bb).is_null(): the backend returns the last
\* instruction of the block when that instruction is a terminator.
TerminatorIsNull(bb) == Len(bb) = 0 \/ ~IsTerminator(bb[Len(bb)])

\* ------------------------------------------------------------ expressions
\* The expressions the statement builder is given: one per TypeKind.
\*   Unit       ExprKind::Unit
\*   Scalar     ExprKind::Integer (a constant: no instruction)
\*   Aggregate  ExprKind::Struct with NumFields scalar (Integer) fields
NumFields == 2
ExprOf == [Unit |-> "Unit", Scalar |-> "Integer", Aggregate |-> "Struct"]
Expr(ty) == [ty |-> ty, kind |-> ExprOf[ty]]

\* enum Value { Unit, Scalar(v), Aggregate(p) }
Value(k, v) == [k |-> k, v |-> v]

\* LLVMBuildCall2 of a function without parameters; sret is the trailing
\* destination argument ("" when the call has none).
LLVMBuildCall2(sret) == Instr("call", 0, 0, sret)
LLVMBuildLoad2(src) == Instr("load", 0, 0, src)

\* StmtBuilder::copy: load the value at src, store it to dst.
copy(src, dst) == <<LLVMBuildLoad2(src), LLVMBuildStore(dst)>>

\* build_scalar: the Integer arm (LLVMConstIntOfStringAndSize, a constant,
\* emits nothing), the Call arm (build_call without destination) and the
\* Local arm (a load).
build_scalar(e) ==
  CASE e.kind = "Integer" -> [code |-> <<>>, v |-> "const"]
    [] e.kind = "Call" -> [code |-> <<LLVMBuildCall2("")>>, v |-> "call"]
    [] e.kind = "Local" -> [code |-> <<LLVMBuildLoad2("local")>>, v |-> "load"]

\* build_unit: nothing for ExprKind::Unit, the call for ExprKind::Call.
build_unit(e) ==
  CASE e.kind = "Unit" -> <<>>
    [] e.kind = "Call" -> <<LLVMBuildCall2("")>>

\* build_aggregate.  Struct arm: for each field, a struct GEP into dst and
\* build_expr(field, Some(gep)), which for a Scalar field stores it.  Call
\* arm: build_call with dst as the trailing argument.  Local and Param arms:
\* copy from the place, or from the parameter, to dst.
build_aggregate(e, dst) ==
  CASE e.kind = "Struct" -> [i \in 1..NumFields |-> StoreField(dst, i - 1)]
    [] e.kind = "Call" -> <<LLVMBuildCall2(dst)>>
    [] e.kind = "Local" -> copy("local", dst)
    [] e.kind = "Param" -> copy("param", dst)

build_expr_NoStore(e, dst) ==
  CASE e.ty = "Unit" -> [code |-> build_unit(e), value |-> Value("Unit", "")]
    [] e.ty = "Aggregate" ->
         LET p == IF dst # None THEN dst ELSE "tmp"
             alloc == IF dst # None THEN <<>> ELSE <<LLVMBuildAlloca("tmp")>>
         IN [code |-> alloc \o build_aggregate(e, p), value |-> Value("Aggregate", p)]
    [] e.ty = "Scalar" ->
         [code |-> build_scalar(e).code, value |-> Value("Scalar", build_scalar(e).v)]

\* build_expr(e, dst): dispatch on the kind of the expression's type.
build_expr(e, dst) ==
  CASE e.ty = "Unit" -> [code |-> build_unit(e), value |-> Value("Unit", "")]
    [] e.ty = "Aggregate" ->
         LET p == IF dst # None THEN dst ELSE "tmp"
             alloc == IF dst # None THEN <<>> ELSE <<LLVMBuildAlloca("tmp")>>
         IN [code |-> alloc \o build_aggregate(e, p), value |-> Value("Aggregate", p)]
    [] e.ty = "Scalar" ->
         LET s == build_scalar(e)
         IN [code |-> s.code \o (IF dst # None THEN <<LLVMBuildStore(dst)>> ELSE <<>>),
             value |-> Value("Scalar", s.v)]

\* --------------------------------------------------------------- the state
VARIABLES
  func_ret,       \* kind of func.ty.ret, the declared return type
  sret,           \* StmtBuilder.sret: Some(LLVMGetLastParam(llfunc)) or None
  blocks,         \* the function's basic blocks, in LLVMAppendBasicBlock order
  block,          \* StmtBuilder.block, the insertion block (builder position)
  break_dest,     \* StmtBuilder.break_dest
  continue_dest,  \* StmtBuilder.continue_dest
  frames,         \* the build_stmt calls in progress, outermost first
  status,         \* "building" | "done" | "panic"
  nstmts,         \* statements lowered so far
  last,           \* the statement step taken last (history)
  loops,          \* the blocks of every While and For lowered so far (history)
  types,          \* Module.types, the ir type table (TypeId = position)
  lltypes,        \* TypeBuilder.lltypes, the lowered type of every TypeId
  named,          \* the named struct types created in the backend's context
  tb,             \* TypeBuilder::new: the pass in progress and its position
  mem,            \* the bytes of the storage location (a local of type Subject)
  nwrites,        \* constructors lowered into the location and executed
  written,        \* the constructor executed last (history)
  readv,          \* the read executed last and the value it loaded (history)
  fty,            \* a FuncType: params, ret (TypeIds), var_args
  abi,            \* func_type(fty): the lowered function type, once built
  call,           \* the call lowered last by build_expr (history)
  lowered,        \* the expression lowered last by build_scalar / build_place
                  \* and its outcome (history)
  bld             \* build: the module, the step reached, the tables built
                  \* and the bodies lowered so far

cfvars == <<func_ret, sret, blocks, block, break_dest, continue_dest, frames,
            status, nstmts, last, loops>>
tyvars == <<types, lltypes, named, tb>>
memvars == <<mem, nwrites, written, readv>>
abivars == <<fty, abi, call>>
exvars == <<lowered>>
vars == <<cfvars, tyvars, memvars, abivars, exvars, bld>>

\* What a specification does not use stays at these values.
NoOp == [op |-> "none"]
IdleCF ==
  /\ func_ret = "Unit" /\ sret = None /\ blocks = <<>> /\ block = 0
  /\ break_dest = <<>> /\ continue_dest = <<>> /\ frames = <<>>
  /\ status = "idle" /\ nstmts = 0 /\ last = NoOp /\ loops = {}
IdleTypes == types = <<>> /\ lltypes = <<>> /\ named = <<>> /\ tb = NoOp
IdleMem == mem = <<>> /\ nwrites = 0 /\ written = NoOp /\ readv = NoOp
IdleAbi == fty = NoOp /\ abi = NoOp /\ call = NoOp
IdleEx == lowered = NoOp
IdleBuild == bld = NoOp

\* A build_stmt call in progress: which statement list of which arm it is
\* iterating, and the arm's block locals (0: not created yet / not used).
Frame(kind, head, then, tail, done) ==
  [kind |-> kind, head |-> head, then |-> then, tail |-> tail, done |-> done]

Last(stmt, ty, dest) ==
  [stmt |-> stmt, blk |-> block, at |-> Len(blocks[block]), ty |-> ty,
   dest |-> dest, prev |-> last.stmt]

\* LLVMBuild*: append instructions at the builder position.
Emit(bs, b, code) == [bs EXCEPT ![b] = @ \o code]

Top == frames[Len(frames)]
Pop(s) == SubSeq(s, 1, Len(s) - 1)

\* build_func_body up to b.build_block(&body.body): the entry block, the
\* sret choice, one alloca per local (the body has one local), empty stacks.
sret_of(ret) == IF ret = "Aggregate" THEN "LastParam" ELSE None

Init ==
  /\ func_ret \in TypeKind
  /\ sret = sret_of(func_ret)
  /\ blocks = << <<LLVMBuildAlloca("local")>> >>
  /\ block = 1
  /\ break_dest = <<>>
  /\ continue_dest = <<>>
  /\ frames = <<>>
  /\ status = "building"
  /\ nstmts = 0
  /\ last = [stmt |-> "entry", blk |-> 1, at |-> 0, ty |-> "", dest |-> 0, prev |-> ""]
  /\ loops = {}
  /\ IdleTypes /\ IdleMem /\ IdleAbi /\ IdleEx /\ IdleBuild

\* The builder is about to lower the next statement of the current list.
CanStmt == status = "building" /\ nstmts < MaxStmts
CanNest == CanStmt /\ Len(frames) < MaxDepth

Stmt_Break_NoCheck ==
  /\ CanStmt
  /\ nstmts' = nstmts + 1
  /\ status' = status
  /\ IF Len(break_dest) = 0
       THEN /\ blocks' = blocks
            /\ last' = Last("Break", "", 0)
       ELSE /\ blocks' = Emit(blocks, block, <<LLVMBuildBr(break_dest[Len(break_dest)])>>)
            /\ last' = Last("Break", "", break_dest[Len(break_dest)])
  /\ UNCHANGED <<bld, tyvars, memvars, abivars, exvars, loops, func_ret, sret, block, break_dest, continue_dest, frames>>

\* Stmt::Break
Stmt_Break ==
  /\ CanStmt
  /\ nstmts' = nstmts + 1
  /\ IF Len(break_dest) = 0
       THEN /\ status' = "panic"
            /\ blocks' = blocks
            /\ last' = Last("Break", "", 0)
       ELSE /\ status' = status
            /\ blocks' = Emit(blocks, block, <<LLVMBuildBr(break_dest[Len(break_dest)])>>)
            /\ last' = Last("Break", "", break_dest[Len(break_dest)])
  /\ UNCHANGED <<bld, tyvars, memvars, abivars, exvars, loops, func_ret, sret, block, break_dest, continue_dest, frames>>

\* Stmt::Continue
Stmt_Continue ==
  /\ CanStmt
  /\ nstmts' = nstmts + 1
  /\ IF Len(continue_dest) = 0
       THEN /\ status' = "panic"
            /\ blocks' = blocks
            /\ last' = Last("Continue", "", 0)
       ELSE /\ status' = status
            /\ blocks' = Emit(blocks, block, <<LLVMBuildBr(continue_dest[Len(continue_dest)])>>)
            /\ last' = Last("Continue", "", continue_dest[Len(continue_dest)])
  /\ UNCHANGED <<bld, tyvars, memvars, abivars, exvars, loops, func_ret, sret, block, break_dest, continue_dest, frames>>

\* Stmt::Assign(x, y): p = build_place(x) (a Local: its alloca, no
\* instruction), then build_expr(y, Some(p)).
Stmt_Assign ==
  /\ CanStmt
  /\ \E ty \in TypeKind :
       /\ blocks' = Emit(blocks, block, build_expr(Expr(ty), "local").code)
       /\ last' = Last("Assign", ty, 0)
  /\ nstmts' = nstmts + 1
  /\ UNCHANGED <<bld, tyvars, memvars, abivars, exvars, loops, func_ret, sret, block, break_dest, continue_dest, frames, status>>

\* Stmt::Expr(x): build_expr(x, None).
Stmt_Expr ==
  /\ CanStmt
  /\ \E ty \in TypeKind :
       /\ blocks' = Emit(blocks, block, build_expr(Expr(ty), None).code)
       /\ last' = Last("Expr", ty, 0)
  /\ nstmts' = nstmts + 1
  /\ UNCHANGED <<bld, tyvars, memvars, abivars, exvars, loops, func_ret, sret, block, break_dest, continue_dest, frames, status>>

\* The terminator Stmt::Return emits for the Value build_expr returned.
ReturnTerminator(v) ==
  CASE v.k = "Unit" -> LLVMBuildRetVoid
    [] v.k = "Aggregate" -> LLVMBuildRetVoid
    [] v.k = "Scalar" -> LLVMBuildRet(v.v)

\* Stmt::Return(x): v = build_expr(x, self.sret), then the return.  The
\* module is typed: x has the function's return type.
ReturnCode_NoSret(x, dst) ==
  LET r == build_expr(x, None) IN r.code \o <<ReturnTerminator(r.value)>>

ReturnCode(x, dst) ==
  LET r == build_expr(x, dst) IN r.code \o <<ReturnTerminator(r.value)>>

Stmt_Return ==
  /\ CanStmt
  /\ blocks' = Emit(blocks, block, ReturnCode(Expr(func_ret), sret))
  /\ last' = Last("Return", func_ret, 0)
  /\ nstmts' = nstmts + 1
  /\ UNCHANGED <<bld, tyvars, memvars, abivars, exvars, loops, func_ret, sret, block, break_dest, continue_dest, frames, status>>

\* Stmt::For(init, cond, post, body), entry: the arm starts iterating init
\* with build_stmt, before any of its blocks exists.
Stmt_For ==
  /\ CanNest
  /\ frames' = Append(frames, Frame("for_init", 0, 0, 0, 0))
  /\ last' = Last("For", "", 0)
  /\ nstmts' = nstmts + 1
  /\ UNCHANGED <<bld, tyvars, memvars, abivars, exvars, loops, func_ret, sret, blocks, block, break_dest, continue_dest, status>>

For_Head_ContinueToHead ==
  /\ status = "building"
  /\ Len(frames) > 0 /\ Top.kind = "for_init"
  /\ LET head == Len(blocks) + 1
         then == Len(blocks) + 2
         tail == Len(blocks) + 3
         done == Len(blocks) + 4
         appended == blocks \o << <<>>, <<>>, <<>>, <<>> >>
         branched == Emit(appended, block, <<LLVMBuildBr(head)>>)
     IN /\ blocks' = Emit(branched, head,
                          build_scalar(Expr("Scalar")).code \o <<LLVMBuildCondBr(then, done)>>)
        /\ block' = then
        /\ break_dest' = Append(break_dest, done)
        /\ continue_dest' = Append(continue_dest, head)
        /\ frames' = [frames EXCEPT ![Len(frames)] = Frame("for_body", head, then, tail, done)]
        /\ loops' = loops \cup {Frame("for", head, then, tail, done)}
        /\ last' = Last("ForHead", "", head)
  /\ UNCHANGED <<bld, tyvars, memvars, abivars, exvars, func_ret, sret, status, nstmts>>

\* Stmt::For after init: four blocks, the branch to head, the condition and
\* its conditional branch in head, then the body in `then` with the loop's
\* targets pushed.
For_Head ==
  /\ status = "building"
  /\ Len(frames) > 0 /\ Top.kind = "for_init"
  /\ LET head == Len(blocks) + 1
         then == Len(blocks) + 2
         tail == Len(blocks) + 3
         done == Len(blocks) + 4
         appended == blocks \o << <<>>, <<>>, <<>>, <<>> >>
         branched == Emit(appended, block, <<LLVMBuildBr(head)>>)
     IN /\ blocks' = Emit(branched, head,
                          build_scalar(Expr("Scalar")).code \o <<LLVMBuildCondBr(then, done)>>)
        /\ block' = then
        /\ break_dest' = Append(break_dest, done)
        /\ continue_dest' = Append(continue_dest, tail)
        /\ frames' = [frames EXCEPT ![Len(frames)] = Frame("for_body", head, then, tail, done)]
        /\ loops' = loops \cup {Frame("for", head, then, tail, done)}
        /\ last' = Last("ForHead", "", head)
  /\ UNCHANGED <<bld, tyvars, memvars, abivars, exvars, func_ret, sret, status, nstmts>>

For_Tail_NoPop ==
  /\ status = "building"
  /\ Len(frames) > 0 /\ Top.kind = "for_body"
  /\ blocks' = IF TerminatorIsNull(blocks[block])
                 THEN Emit(blocks, block, <<LLVMBuildBr(Top.tail)>>)
                 ELSE blocks
  /\ block' = Top.tail
  /\ frames' = [frames EXCEPT ![Len(frames)].kind = "for_post"]
  /\ last' = Last("ForTail", "", Top.tail)
  /\ UNCHANGED <<bld, tyvars, memvars, abivars, exvars, loops, func_ret, sret, break_dest, continue_dest, status, nstmts>>

\* Stmt::For after the body: pop both targets, fall through to tail when the
\* insertion block has no terminator, then iterate post in tail.
For_Tail ==
  /\ status = "building"
  /\ Len(frames) > 0 /\ Top.kind = "for_body"
  /\ break_dest' = Pop(break_dest)
  /\ continue_dest' = Pop(continue_dest)
  /\ blocks' = IF TerminatorIsNull(blocks[block])
                 THEN Emit(blocks, block, <<LLVMBuildBr(Top.tail)>>)
                 ELSE blocks
  /\ block' = Top.tail
  /\ frames' = [frames EXCEPT ![Len(frames)].kind = "for_post"]
  /\ last' = Last("ForTail", "", Top.tail)
  /\ UNCHANGED <<bld, tyvars, memvars, abivars, exvars, loops, func_ret, sret, status, nstmts>>

\* Stmt::For after post: the branch back to head, then position at done.
For_Done ==
  /\ status = "building"
  /\ Len(frames) > 0 /\ Top.kind = "for_post"
  /\ blocks' = Emit(blocks, block, <<LLVMBuildBr(Top.head)>>)
  /\ block' = Top.done
  /\ frames' = Pop(frames)
  /\ last' = Last("ForDone", "", Top.head)
  /\ UNCHANGED <<bld, tyvars, memvars, abivars, exvars, loops, func_ret, sret, break_dest, continue_dest, status, nstmts>>

Stmt_While_PushBreakOnly ==
  /\ CanNest
  /\ LET head == Len(blocks) + 1
         then == Len(blocks) + 2
         done == Len(blocks) + 3
         appended == blocks \o << <<>>, <<>>, <<>> >>
         branched == Emit(appended, block, <<LLVMBuildBr(head)>>)
     IN /\ blocks' = Emit(branched, head,
                          build_scalar(Expr("Scalar")).code \o <<LLVMBuildCondBr(then, done)>>)
        /\ block' = then
        /\ break_dest' = Append(break_dest, done)
        /\ continue_dest' = continue_dest
        /\ frames' = Append(frames, Frame("while_body", head, then, 0, done))
        /\ loops' = loops \cup {Frame("while", head, then, 0, done)}
        /\ last' = Last("While", "", head)
  /\ nstmts' = nstmts + 1
  /\ UNCHANGED <<bld, tyvars, memvars, abivars, exvars, func_ret, sret, status>>

\* Stmt::While(cond, body) up to the body.
Stmt_While ==
  /\ CanNest
  /\ LET head == Len(blocks) + 1
         then == Len(blocks) + 2
         done == Len(blocks) + 3
         appended == blocks \o << <<>>, <<>>, <<>> >>
         branched == Emit(appended, block, <<LLVMBuildBr(head)>>)
     IN /\ blocks' = Emit(branched, head,
                          build_scalar(Expr("Scalar")).code \o <<LLVMBuildCondBr(then, done)>>)
        /\ block' = then
        /\ break_dest' = Append(break_dest, done)
        /\ continue_dest' = Append(continue_dest, head)
        /\ frames' = Append(frames, Frame("while_body", head, then, 0, done))
        /\ loops' = loops \cup {Frame("while", head, then, 0, done)}
        /\ last' = Last("While", "", head)
  /\ nstmts' = nstmts + 1
  /\ UNCHANGED <<bld, tyvars, memvars, abivars, exvars, func_ret, sret, status>>

While_Done_ToThen ==
  /\ status = "building"
  /\ Len(frames) > 0 /\ Top.kind = "while_body"
  /\ break_dest' = Pop(break_dest)
  /\ continue_dest' = Pop(continue_dest)
  /\ blocks' = IF TerminatorIsNull(blocks[block])
                 THEN Emit(blocks, block, <<LLVMBuildBr(Top.then)>>)
                 ELSE blocks
  /\ block' = Top.done
  /\ frames' = Pop(frames)
  /\ last' = Last("WhileDone", "", Top.head)
  /\ UNCHANGED <<bld, tyvars, memvars, abivars, exvars, loops, func_ret, sret, status, nstmts>>

\* Stmt::While after the body.
While_Done ==
  /\ status = "building"
  /\ Len(frames) > 0 /\ Top.kind = "while_body"
  /\ break_dest' = Pop(break_dest)
  /\ continue_dest' = Pop(continue_dest)
  /\ blocks' = IF TerminatorIsNull(blocks[block])
                 THEN Emit(blocks, block, <<LLVMBuildBr(Top.head)>>)
                 ELSE blocks
  /\ block' = Top.done
  /\ frames' = Pop(frames)
  /\ last' = Last("WhileDone", "", Top.head)
  /\ UNCHANGED <<bld, tyvars, memvars, abivars, exvars, loops, func_ret, sret, status, nstmts>>

\* Stmt::If(cond, body) up to the body.
Stmt_If ==
  /\ CanNest
  /\ LET then == Len(blocks) + 1
         done == Len(blocks) + 2
         appended == blocks \o << <<>>, <<>> >>
     IN /\ blocks' = Emit(appended, block,
                          build_scalar(Expr("Scalar")).code \o <<LLVMBuildCondBr(then, done)>>)
        /\ block' = then
        /\ frames' = Append(frames, Frame("if_body", 0, then, 0, done))
        /\ last' = Last("If", "", then)
  /\ nstmts' = nstmts + 1
  /\ UNCHANGED <<bld, tyvars, memvars, abivars, exvars, loops, func_ret, sret, break_dest, continue_dest, status>>

\* The fallthrough Stmt::If emits after its body.
If_Fallthrough_Always(bb, done) == <<LLVMBuildBr(done)>>

If_Fallthrough(bb, done) == IF TerminatorIsNull(bb) THEN <<LLVMBuildBr(done)>> ELSE <<>>

\* Stmt::If after the body.
If_Done ==
  /\ status = "building"
  /\ Len(frames) > 0 /\ Top.kind = "if_body"
  /\ blocks' = Emit(blocks, block, If_Fallthrough(blocks[block], Top.done))
  /\ block' = Top.done
  /\ frames' = Pop(frames)
  /\ last' = Last("IfDone", "", Top.done)
  /\ UNCHANGED <<bld, tyvars, memvars, abivars, exvars, loops, func_ret, sret, break_dest, continue_dest, status, nstmts>>

Finish_NoRet ==
  /\ status = "building"
  /\ Len(frames) = 0
  /\ blocks' = blocks
  /\ status' = "done"
  /\ last' = Last("Finish", "", 0)
  /\ UNCHANGED <<bld, tyvars, memvars, abivars, exvars, loops, func_ret, sret, block, break_dest, continue_dest, frames, nstmts>>

\* build_func_body after b.build_block(&body.body): a void return when the
\* insertion block has no terminator.
Finish ==
  /\ status = "building"
  /\ Len(frames) = 0
  /\ blocks' = IF TerminatorIsNull(blocks[block])
                 THEN Emit(blocks, block, <<LLVMBuildRetVoid>>)
                 ELSE blocks
  /\ status' = "done"
  /\ last' = Last("Finish", "", 0)
  /\ UNCHANGED <<bld, tyvars, memvars, abivars, exvars, loops, func_ret, sret, block, break_dest, continue_dest, frames, nstmts>>

Next ==
  \/ Stmt_Break
  \/ Stmt_Continue
  \/ Stmt_Assign
  \/ Stmt_Expr
  \/ Stmt_Return
  \/ Stmt_For
  \/ For_Head
  \/ For_Tail
  \/ For_Done
  \/ Stmt_While
  \/ While_Done
  \/ Stmt_If
  \/ If_Done
  \/ Finish

Spec == Init /\ [][Next]_vars

\* ------------------------------------------------------ control-flow claims
\* The instructions the last statement step appended to the block it began in.
LastCode == SubSeq(blocks[last.blk], last.at + 1, Len(blocks[last.blk]))

Terminators(bb) == {i \in DOMAIN bb : IsTerminator(bb[i])}

\* Branch edges into block d: <<b, i>> for instruction i of block b naming d.
EdgesInto(d) ==
  UNION {{<<b, i>> : i \in {j \in DOMAIN blocks[b] :
                              LET ins == blocks[b][j]
                              IN \/ ins.op = "br" /\ ins.t = d
                                 \/ ins.op = "condbr" /\ (ins.t = d \/ ins.f = d)}} :
         b \in DOMAIN blocks}

\* C1: after lowering any function body, every basic block ends in exactly
\* one terminator: no branch or return was appended to a block that already
\* ended in a terminator (statements after a Return, Break or Continue, a
\* loop or if starting right after one, a For's post-step block closed).
C1_EveryBlockOneTerminator ==
  status = "done" =>
    \A b \in DOMAIN blocks :
      /\ Cardinality(Terminators(blocks[b])) = 1
      /\ ~TerminatorIsNull(blocks[b])

\* C8: Return(value) lowers by the kind of the value's type: Aggregate, the
\* value is written through the indirect-return-slot parameter (the
\* function's last parameter) and a void return follows; Scalar, a value
\* return of the scalar and no store; Unit, a void return.
C8_ReturnByKind ==
  last.stmt = "Return" =>
    CASE last.ty = "Aggregate" ->
           /\ sret = "LastParam"
           /\ LastCode = [i \in 1..NumFields |-> StoreField("LastParam", i - 1)]
                           \o <<LLVMBuildRetVoid>>
      [] last.ty = "Scalar" -> LastCode = <<LLVMBuildRet("const")>>
      [] last.ty = "Unit" -> LastCode = <<LLVMBuildRetVoid>>

C8_Witness ==
  /\ last.stmt = "Return" /\ last.ty = "Aggregate"
  /\ Len(LastCode) = NumFields + 1

\* C9: when the statement list of an If body ends in a Return, closing the
\* If emits no branch from the block holding that Return to the If's
\* "after" block: the only edge into "after" is the false edge of the If's
\* conditional branch.
C9_IfReturnNoFallthrough ==
  (last.stmt = "IfDone" /\ last.prev = "Return") =>
    /\ Len(blocks[last.blk]) = last.at
    /\ \A i \in DOMAIN blocks[last.blk] :
         ~(blocks[last.blk][i].op = "br" /\ blocks[last.blk][i].t = last.dest)
    /\ \A e \in EdgesInto(last.dest) :
         blocks[e[1]][e[2]].op = "condbr" /\ blocks[e[1]][e[2]].f = last.dest
    /\ Cardinality(EdgesInto(last.dest)) = 1

C9_Witness ==
  /\ last.stmt = "IfDone" /\ last.prev = "Return"
  /\ block = last.dest
  /\ Cardinality(EdgesInto(last.dest)) = 1

\* The loops whose body the builder is inside, outermost first.
LoopBodies == SelectSeq(frames, LAMBDA fr : fr.kind \in {"for_body", "while_body"})
Innermost == LoopBodies[Len(LoopBodies)]
\* The block a Continue of a loop goes to: head for While, post-step for For.
ContinueTarget(fr) == IF fr.kind = "for_body" THEN fr.tail ELSE fr.head

\* C10: a Break (Continue) lowered inside nested loops jumps to the exit
\* block (continue target) of the innermost loop whose body encloses it and
\* of no other loop.
C10_InnermostLoop ==
  /\ (last.stmt = "Break" /\ Len(LoopBodies) > 0) =>
       /\ status = "building"
       /\ LastCode = <<LLVMBuildBr(Innermost.done)>>
  /\ (last.stmt = "Continue" /\ Len(LoopBodies) > 0) =>
       /\ status = "building"
       /\ LastCode = <<LLVMBuildBr(ContinueTarget(Innermost))>>

\* for (...) { while (...) { break; } }: the break goes to the while's done.
C10_Witness ==
  /\ last.stmt = "Break"
  /\ Len(frames) = 2
  /\ frames[1].kind = "for_body" /\ frames[2].kind = "while_body"
  /\ LastCode = <<LLVMBuildBr(frames[2].done)>>
  /\ frames[2].done # frames[1].done

\* The block the last statement step began in, as it was before the step.
BlockBefore == SubSeq(blocks[last.blk], 1, last.at)

WhileLoops == {l \in loops : l.kind = "while"}
ForLoops == {l \in loops : l.kind = "for"}
\* The arm of the loop is still in progress (body or post-step).
Open(l) == \E i \in DOMAIN frames : frames[i].head = l.head

\* C11: in the control-flow graph of While(cond, body) the condition is
\* evaluated in head and every new iteration passes through it: a Continue
\* in the body jumps to head, a body that does not end in a terminator falls
\* through to head, a Break jumps to done, and the body block is entered
\* only through the true edge of head's conditional branch.
C11_WhileThroughHead ==
  /\ \A l \in WhileLoops :
       /\ blocks[l.head] = <<LLVMBuildCondBr(l.then, l.done)>>
       /\ EdgesInto(l.then) = {<<l.head, 1>>}
       /\ \A e \in EdgesInto(l.head) : blocks[e[1]][e[2]] = LLVMBuildBr(l.head)
  /\ (last.stmt = "Continue" /\ Len(LoopBodies) > 0 /\ Innermost.kind = "while_body") =>
       LastCode = <<LLVMBuildBr(Innermost.head)>>
  /\ (last.stmt = "Break" /\ Len(LoopBodies) > 0 /\ Innermost.kind = "while_body") =>
       LastCode = <<LLVMBuildBr(Innermost.done)>>
  /\ last.stmt = "WhileDone" =>
       /\ \E l \in WhileLoops : l.head = last.dest
       /\ LastCode = IF TerminatorIsNull(BlockBefore)
                       THEN <<LLVMBuildBr(last.dest)>> ELSE <<>>

\* while (c) { if (d) { continue; } }: entry, continue and fallthrough all
\* lead to head.
C11_Witness ==
  /\ last.stmt = "WhileDone"
  /\ LastCode = <<LLVMBuildBr(last.dest)>>
  /\ Cardinality(EdgesInto(last.dest)) = 3

\* C12: in the control-flow graph of For(init, cond, post, body) the
\* initializer is lowered once, before head, and on every path from the body
\* to the next evaluation of the condition the post-step block runs first: a
\* Continue in the body jumps to the post-step block, a body that does not
\* end in a terminator falls through to it, only the post-step branches back
\* to head, and a Break jumps to done.
C12_ForThroughPost ==
  /\ \A l \in ForLoops :
       /\ blocks[l.head] = <<LLVMBuildCondBr(l.then, l.done)>>
       /\ EdgesInto(l.then) = {<<l.head, 1>>}
       /\ \A e \in EdgesInto(l.tail) : blocks[e[1]][e[2]] = LLVMBuildBr(l.tail)
       /\ \A e \in EdgesInto(l.head) : blocks[e[1]][e[2]] = LLVMBuildBr(l.head)
       /\ Cardinality(EdgesInto(l.head)) = IF Open(l) THEN 1 ELSE 2
       /\ \A e \in EdgesInto(l.head) : e[1] < l.head \/ ~Open(l)
  /\ last.stmt = "ForHead" =>
       /\ LastCode = <<LLVMBuildBr(last.dest)>>
       /\ last.blk < last.dest
  /\ (last.stmt = "Continue" /\ Len(LoopBodies) > 0 /\ Innermost.kind = "for_body") =>
       LastCode = <<LLVMBuildBr(Innermost.tail)>>
  /\ (last.stmt = "Break" /\ Len(LoopBodies) > 0 /\ Innermost.kind = "for_body") =>
       LastCode = <<LLVMBuildBr(Innermost.done)>>
  /\ last.stmt = "ForTail" =>
       LastCode = IF TerminatorIsNull(BlockBefore)
                    THEN <<LLVMBuildBr(last.dest)>> ELSE <<>>
  /\ last.stmt = "ForDone" =>
       /\ LastCode = <<LLVMBuildBr(last.dest)>>
       /\ \E l \in ForLoops : l.head = last.dest /\ ~Open(l)

\* for (;;) { if (d) { continue; } }: continue and fallthrough both lead to
\* the post-step block, which alone leads back to head.
C12_Witness ==
  /\ last.stmt = "ForDone"
  /\ \E l \in ForLoops :
       /\ l.head = last.dest
       /\ Cardinality(EdgesInto(l.tail)) = 2
       /\ Cardinality(EdgesInto(l.head)) = 2

\* C13: a Break or Continue that is not inside the body of an enclosing loop
\* (its target stack is empty) aborts and emits no branch; inside a loop
\* body it never aborts.
C13_BreakOutsideLoopAborts ==
  /\ Len(break_dest) = Len(LoopBodies)
  /\ Len(continue_dest) = Len(LoopBodies)
  /\ last.stmt \in {"Break", "Continue"} =>
       IF Len(LoopBodies) = 0
         THEN status = "panic" /\ LastCode = <<>>
         ELSE status = "building" /\ Len(LastCode) = 1 /\ LastCode[1].op = "br"
  /\ status = "panic" => last.stmt \in {"Break", "Continue"}

\* A Break in the post-step of a For that no loop encloses.
C13_Witness ==
  /\ status = "panic" /\ last.stmt = "Break"
  /\ Len(frames) = 1 /\ Top.kind = "for_post"

\* ===================================================== types and layout
\* ir::Type values.  Fields, variant arguments, pointees, parameters and
\* returns are TypeIds: positions in the type table.
IRScalar(name) == [t |-> name]
IRUnit == [t |-> "Unit"]
IRPointer(to) == [t |-> "Pointer", to |-> to]
IRStruct(fields) == [t |-> "Struct", fields |-> fields]
IREnum(variants) == [t |-> "Enum", variants |-> variants]
IRArray(elem) == [t |-> "Array", elem |-> elem]
IRFunc(params, ret) == [t |-> "Func", params |-> params, ret |-> ret]

\* Type::kind(): Scalar (numeric, pointer, function value), Aggregate
\* (struct, tuple, array, enum), Unit.
kind(ty) ==
  CASE ty.t = "Unit" -> "Unit"
    [] ty.t \in {"Struct", "Tuple", "Array", "Enum"} -> "Aggregate"
    [] OTHER -> "Scalar"

\* Lowered (backend) types.  A pointer names its pointee by TypeId, as a
\* pointer to a named struct does.
LLInt(bits) == [k |-> "int", bits |-> bits]
LLVoid == [k |-> "void"]
LLPointerTo(id) == [k |-> "ptr", to |-> id]
LLVMStructType(elems) == [k |-> "struct", elems |-> elems]
LLVMInt8Type == LLInt(8)
\* Option<(u64, LLVMTypeRef)>::None
NoType == [k |-> "none"]

\* The target data layout (x86-64): sizes and ABI alignments in bytes.
RECURSIVE ABIAlignment(_)
RECURSIVE AllocSize(_)
RECURSIVE OffsetAfter(_, _)

Max(a, b) == IF a >= b THEN a ELSE b
AlignTo(n, a) == ((n + a - 1) \div a) * a

ABIAlignment(llty) ==
  CASE llty.k = "int" -> Max(1, llty.bits \div 8)
    [] llty.k = "ptr" -> 8
    [] llty.k = "struct" ->
         IF Len(llty.elems) = 0 THEN 1
         ELSE LET a == ABIAlignment(llty.elems[Len(llty.elems)])
                  r == ABIAlignment(LLVMStructType(SubSeq(llty.elems, 1, Len(llty.elems) - 1)))
              IN Max(a, r)

\* End offset of the first n elements of a struct, before tail padding.
OffsetAfter(elems, n) ==
  IF n = 0 THEN 0
  ELSE AlignTo(OffsetAfter(elems, n - 1), ABIAlignment(elems[n])) + AllocSize(elems[n])

AllocSize(llty) ==
  CASE llty.k = "int" -> Max(1, llty.bits \div 8)
    [] llty.k = "ptr" -> 8
    [] llty.k = "struct" ->
         AlignTo(OffsetAfter(llty.elems, Len(llty.elems)), ABIAlignment(llty))

\* LLVMStoreSizeOfType(layout, ty)
LLVMStoreSizeOfType(llty) == AllocSize(llty)

\* Byte offset of element i (0-based) of a struct type: what
\* LLVMBuildStructGEP2(ty, p, i) adds to p.
ElementOffset(llty, i) ==
  AlignTo(OffsetAfter(llty.elems, i), ABIAlignment(llty.elems[i + 1]))

\* LLVMBuildStructGEP2(ty, p, i): the address, and the type it points to.
LLVMBuildStructGEP2(llty, p, i) ==
  [addr |-> p + ElementOffset(llty, i), ty |-> llty.elems[i + 1]]

\* TypeBuilder::build_type for the scalar types, and the lowered type of a
\* TypeId once TypeBuilder::new has run both passes (lltype).
build_type_scalar(ty) ==
  CASE ty.t = "Bool" -> LLInt(1)
    [] ty.t = "I8" -> LLInt(8)
    [] ty.t = "I16" -> LLInt(16)
    [] ty.t = "I32" -> LLInt(32)
    [] ty.t = "I64" -> LLInt(64)
    [] ty.t = "Unit" -> LLVoid
    [] ty.t = "Pointer" -> LLPointerTo(ty.to)

\* The anonymous record of a list of argument TypeIds: LLVMStructType over
\* the lowered argument types (set_enum_body, EnumCall and EnumField all
\* build it this way).
VariantRecord(tys, args) ==
  LLVMStructType([i \in 1..Len(args) |-> build_type_scalar(tys[args[i]])])

\* TypeBuilder::set_struct_body: the lowered field types in declared order.
set_struct_body(tys, sty) ==
  LLVMStructType([i \in 1..Len(sty.fields) |-> build_type_scalar(tys[sty.fields[i]])])

\* The `largest` fold of set_enum_body over the variant records: the first
\* record of maximal store size, None for an enum without variants.
Largest_KeepLast(recs) == IF Len(recs) = 0 THEN NoType ELSE recs[Len(recs)]

RECURSIVE Largest(_)
Largest(recs) ==
  IF Len(recs) = 0 THEN NoType
  ELSE LET prev == Largest(SubSeq(recs, 1, Len(recs) - 1))
           ty == recs[Len(recs)]
       IN IF prev # NoType /\ LLVMStoreSizeOfType(prev) >= LLVMStoreSizeOfType(ty)
            THEN prev
            ELSE ty

\* TypeBuilder::set_enum_body: [largest, tag] or, without `largest`, [tag].
set_enum_body(tys, ety) ==
  LET recs == [v \in 1..Len(ety.variants) |-> VariantRecord(tys, ety.variants[v])]
      largest == Largest(recs)
  IN IF largest # NoType
       THEN LLVMStructType(<<largest, LLVMInt8Type>>)
       ELSE LLVMStructType(<<LLVMInt8Type>>)

\* TypeBuilder::new: a lowered type per TypeId, struct and enum bodies set.
TypeBuilder_new(tys) ==
  [id \in 1..Len(tys) |->
     CASE tys[id].t = "Struct" -> set_struct_body(tys, tys[id])
       [] tys[id].t = "Enum" -> set_enum_body(tys, tys[id])
       [] OTHER -> build_type_scalar(tys[id])]

\* ------------------------------------------------- SpecLayout: the inputs
\* Variants per enum, arguments per variant (and fields per struct),
\* arguments of all variants of an enum together, and constructors executed
\* on the location.
MaxVariants == 2
MaxArgs == 2
MaxEnumArgs == 3
MaxWrites == 2

\* The type table is <<I8, I32, Subject>>: the subject is a struct or an
\* enum whose fields / variant arguments are the scalar TypeIds 1 and 2.
ScalarIds == {1, 2}
ArgLists == UNION {[1..n -> ScalarIds] : n \in 0..MaxArgs}
RECURSIVE TotalLen(_)
TotalLen(vs) == IF Len(vs) = 0 THEN 0 ELSE Len(vs[1]) + TotalLen(Tail(vs))
EnumTypes ==
  {IREnum(vs) : vs \in {ws \in UNION {[1..n -> ArgLists] : n \in 1..MaxVariants} :
                          TotalLen(ws) <= MaxEnumArgs}}
StructTypes == {IRStruct(fs) : fs \in ArgLists}
SubjectId == Len(types)
Subject == types[SubjectId]

\* One byte of memory: byte b of a stored value v, or uninitialised.
Cell(v, b) == [v |-> v, b |-> b]
Uninit == Cell(-1, 0)
\* What a load of uninitialised or torn bytes may produce: any value.  The
\* model draws from two: one that is a tag (and no token) and one that is
\* neither.
UndefVals == {0, 255}

\* LLVMBuildStore of a value of `size` bytes at address addr (offset in the
\* location); bytes outside the location are not tracked.
Store(m, addr, size, val) ==
  [o \in DOMAIN m |->
     IF addr < o /\ o <= addr + size THEN Cell(val, o - addr - 1) ELSE m[o]]

\* LLVMBuildLoad2 of `size` bytes at addr: the values it may produce.
Load(m, addr, size) ==
  IF /\ size > 0
     /\ addr + size <= Len(m)
     /\ m[addr + 1].v # -1
     /\ \A j \in 0..(size - 1) : m[addr + j + 1] = Cell(m[addr + 1].v, j)
    THEN {m[addr + 1].v}
    ELSE UndefVals

\* The address of the location (self.locals[i]; build_place of a Local).
LocalAddr == 0

\* The argument / field values of the n-th constructor: distinct tokens.
Token(n, i) == 10 * n + i

\* The address of argument / field i of a record at base: the GEP both the
\* constructors and the place resolver compute.
ArgPtr(rec, base, i) == LLVMBuildStructGEP2(rec, base, i)

\* for (i, arg) in args: GEP(variant_ty, variant_ptr, i), then
\* build_expr(arg, Some(arg_ptr)) storing the scalar argument.
RECURSIVE StoreArgs(_, _, _, _, _)
StoreArgs(m, rec, base, vals, n) ==
  IF n = 0 THEN m
  ELSE LET p == ArgPtr(rec, base, n - 1)
       IN Store(StoreArgs(m, rec, base, vals, n - 1), p.addr, AllocSize(p.ty), vals[n])

\* build_aggregate, ExprKind::EnumCall arm: the field index of the tag.
EnumCall_tag_index(args) == IF Len(args) = 0 THEN 0 ELSE 1

\* build_scalar, ExprKind::EnumTag arm: the field index the tag is read at.
EnumTag_index == 1

\* build_aggregate, ExprKind::EnumCall(variant, args) lowered into the
\* location and executed.
Build_EnumCall ==
  /\ status = "idle" /\ Subject.t = "Enum" /\ nwrites < MaxWrites
  /\ \E variant \in 0..(Len(Subject.variants) - 1) :
       LET ety == lltypes[SubjectId]
           targs == Subject.variants[variant + 1]
           args == [i \in 1..Len(targs) |-> Token(nwrites + 1, i - 1)]
           tag_index == EnumCall_tag_index(args)
           tag_ptr == LLVMBuildStructGEP2(ety, LocalAddr, tag_index)
           m1 == Store(mem, tag_ptr.addr, 1, variant)
           variant_ty == VariantRecord(types, targs)
           body_ptr == LLVMBuildStructGEP2(ety, LocalAddr, 0)
       IN /\ mem' = IF Len(args) = 0 THEN m1
                    ELSE StoreArgs(m1, variant_ty, body_ptr.addr, args, Len(args))
          /\ written' = [op |-> "EnumCall", variant |-> variant, args |-> args,
                         index |-> tag_index, addr |-> tag_ptr.addr, ty |-> tag_ptr.ty,
                         ptrs |-> [i \in 1..Len(args) |->
                                     ArgPtr(variant_ty, body_ptr.addr, i - 1)]]
  /\ nwrites' = nwrites + 1
  /\ readv' = NoOp
  /\ UNCHANGED <<bld, cfvars, tyvars, abivars, exvars>>

\* build_aggregate, ExprKind::Struct(fields) lowered into the location and
\* executed: for (i, e) in fields, GEP(sty, dst, i) and build_expr(e, gep).
Build_Struct ==
  /\ status = "idle" /\ Subject.t = "Struct" /\ nwrites < MaxWrites
  /\ LET sty == lltypes[SubjectId]
         n == Len(Subject.fields)
         vals == [i \in 1..n |-> Token(nwrites + 1, i - 1)]
     IN /\ mem' = StoreArgs(mem, sty, LocalAddr, vals, n)
        /\ written' = [op |-> "Struct", variant |-> 0, args |-> vals,
                       index |-> 0, addr |-> 0, ty |-> sty,
                       ptrs |-> [i \in 1..n |-> ArgPtr(sty, LocalAddr, i - 1)]]
  /\ nwrites' = nwrites + 1
  /\ readv' = NoOp
  /\ UNCHANGED <<bld, cfvars, tyvars, abivars, exvars>>

Read(op, variant, i, index, addr, val) ==
  [op |-> op, variant |-> variant, i |-> i, index |-> index, addr |-> addr, val |-> val]

\* build_scalar, ExprKind::EnumTag(en): p = build_place(en), the tag
\* pointer GEP(enty, p, 1), a load of one byte.
Read_EnumTag ==
  /\ status = "idle" /\ Subject.t = "Enum" /\ nwrites > 0
  /\ LET p == LocalAddr
         enty == lltypes[SubjectId]
         tag_ptr == LLVMBuildStructGEP2(enty, p, EnumTag_index)
     IN \E r \in Load(mem, tag_ptr.addr, 1) :
          readv' = Read("EnumTag", 0, 0, EnumTag_index, tag_ptr.addr, r)
  /\ UNCHANGED <<bld, cfvars, tyvars, abivars, exvars, mem, nwrites, written>>

\* build_place, ExprKind::EnumField(x, variant, i): the payload pointer
\* GEP(ety, enum_ptr, 0) cast to the variant's record, then GEP(.., i).
EnumField_place(tys, lltys, id, enum_ptr, variant, i) ==
  LET variant_ty == VariantRecord(tys, tys[id].variants[variant + 1])
      body_ptr == LLVMBuildStructGEP2(lltys[id], enum_ptr, 0)
  IN LLVMBuildStructGEP2(variant_ty, body_ptr.addr, i)

\* build_scalar of an EnumField expression: build_place, then a load.
Read_EnumField ==
  /\ status = "idle" /\ Subject.t = "Enum" /\ nwrites > 0
  /\ \E variant \in 0..(Len(Subject.variants) - 1) :
       \E i \in 0..(Len(Subject.variants[variant + 1]) - 1) :
         LET p == EnumField_place(types, lltypes, SubjectId, LocalAddr, variant, i)
         IN \E r \in Load(mem, p.addr, AllocSize(p.ty)) :
              readv' = Read("EnumField", variant, i, 0, p.addr, r)
  /\ UNCHANGED <<bld, cfvars, tyvars, abivars, exvars, mem, nwrites, written>>

\* build_place, ExprKind::Field(x, i): GEP(sty, p, i), where x is a struct
\* place (p = build_place(x)) or a pointer to the struct (p = its value).
Field_place_First(sty, p, i) == LLVMBuildStructGEP2(sty, p, 0)

Field_place(sty, p, i) == LLVMBuildStructGEP2(sty, p, i)

\* build_scalar of a Field expression: build_place, then a load.
Read_Field ==
  /\ status = "idle" /\ Subject.t = "Struct" /\ nwrites > 0
  /\ \E i \in 0..(Len(Subject.fields) - 1) :
       \E via \in {"place", "pointer"} :
         LET p == Field_place(lltypes[SubjectId], LocalAddr, i)
         IN \E r \in Load(mem, p.addr, AllocSize(p.ty)) :
              readv' = [Read("Field", 0, i, i, p.addr, r) EXCEPT !.op = "Field_" \o via]
  /\ UNCHANGED <<bld, cfvars, tyvars, abivars, exvars, mem, nwrites, written>>

InitLayout ==
  /\ IdleCF /\ IdleAbi /\ IdleEx /\ IdleBuild
  /\ \E X \in EnumTypes \cup StructTypes :
       types = <<IRScalar("I8"), IRScalar("I32"), X>>
  /\ lltypes = TypeBuilder_new(types)
  /\ named = <<>> /\ tb = NoOp
  /\ mem = [o \in 1..AllocSize(lltypes[Len(lltypes)]) |-> Uninit]
  /\ nwrites = 0
  /\ written = NoOp
  /\ readv = NoOp

NextLayout ==
  \/ Build_EnumCall
  \/ Build_Struct
  \/ Read_EnumTag
  \/ Read_EnumField
  \/ Read_Field

SpecLayout == InitLayout /\ [][NextLayout]_vars

\* ----------------------------------------------------------- layout claims
\* The field index of the tag in the body set_enum_body gave the enum: the
\* one-byte field that ends the body.
TagFieldIndex(ety) == Len(ety.elems) - 1

\* C2: constructing variant k of any enum into a location (EnumCall) and
\* then reading the tag of that location (EnumTag) yields k, for variants
\* without arguments as for variants with arguments.
C2_TagRoundTrip ==
  (written.op = "EnumCall" /\ readv.op = "EnumTag") => readv.val = written.variant

\* C3: the field index at which the tag is stored is one value per enum
\* type: the index enum construction uses is the same for every variant and
\* equals the index of the tag in the layout of set_enum_body and the index
\* EnumTag reads.
C3_TagIndexFixed ==
  written.op = "EnumCall" =>
    /\ written.index = TagFieldIndex(lltypes[SubjectId])
    /\ written.index = EnumTag_index

\* Variant k (0-based) has a payload record strictly larger than that of
\* every other variant of the subject enum.
StrictlyLargest(k) ==
  \A j \in 0..(Len(Subject.variants) - 1) :
    j # k =>
      LLVMStoreSizeOfType(VariantRecord(types, Subject.variants[k + 1]))
        > LLVMStoreSizeOfType(VariantRecord(types, Subject.variants[j + 1]))

C5_StructRoundTrip ==
  written.op = "Struct" =>
    /\ readv.op \in {"Field_place", "Field_pointer"} =>
         readv.val = written.args[readv.i + 1]
    /\ \A i, j \in DOMAIN written.ptrs :
         i # j =>
           \/ written.ptrs[i].addr + AllocSize(written.ptrs[i].ty) <= written.ptrs[j].addr
           \/ written.ptrs[j].addr + AllocSize(written.ptrs[j].ty) <= written.ptrs[i].addr

C5_Witness ==
  /\ written.op = "Struct"
  /\ Subject.fields = <<1, 2>>
  /\ readv.op = "Field_pointer" /\ readv.i = 1
  /\ readv.addr = 4
  /\ readv.val = written.args[2]

\* ================================================ the calling convention
\* Declared parameters of a function type.
MaxParams == 3

\* The type table of SpecAbi: a Scalar, Unit, an Aggregate and a pointer.
AbiTypes == <<IRScalar("I32"), IRUnit, IRStruct(<<1, 1>>), IRPointer(3)>>
FuncTypes ==
  {[params |-> ps, ret |-> r, var_args |-> va] :
     ps \in UNION {[1..n -> DOMAIN AbiTypes] : n \in 0..MaxParams},
     r \in DOMAIN AbiTypes, va \in BOOLEAN}

\* func_type, the loop over func.params: by kind, a pointer to the lowered
\* type (Aggregate), nothing (Unit), the lowered type (Scalar).
RECURSIVE abi_params_KeepUnit(_, _, _)
abi_params_KeepUnit(tys, lltys, params) ==
  IF Len(params) = 0 THEN <<>>
  ELSE LET ty == params[Len(params)]
           rest == abi_params_KeepUnit(tys, lltys, SubSeq(params, 1, Len(params) - 1))
       IN CASE kind(tys[ty]) = "Aggregate" -> Append(rest, LLPointerTo(ty))
            [] kind(tys[ty]) = "Unit" -> Append(rest, lltys[ty])
            [] kind(tys[ty]) = "Scalar" -> Append(rest, lltys[ty])

RECURSIVE abi_params(_, _, _)
abi_params(tys, lltys, params) ==
  IF Len(params) = 0 THEN <<>>
  ELSE LET ty == params[Len(params)]
           rest == abi_params(tys, lltys, SubSeq(params, 1, Len(params) - 1))
       IN CASE kind(tys[ty]) = "Aggregate" -> Append(rest, LLPointerTo(ty))
            [] kind(tys[ty]) = "Unit" -> rest
            [] kind(tys[ty]) = "Scalar" -> Append(rest, lltys[ty])

\* TypeBuilder::func_type: LLVMFunctionType(ret, params, var_args).
func_type(tys, lltys, func) ==
  LET params == abi_params(tys, lltys, func.params)
      k == kind(tys[func.ret])
  IN [op |-> "fn",
      ret |-> CASE k = "Aggregate" -> LLVoid
                [] k = "Unit" -> LLVoid
                [] k = "Scalar" -> lltys[func.ret],
      params |-> IF k = "Aggregate" THEN Append(params, LLPointerTo(func.ret)) ELSE params,
      var_args |-> func.var_args]

\* An LLVMValueRef passed to a call: its backend type and what it is.
Arg(ty, what, i) == [ty |-> ty, v |-> <<what, i>>]

\* build_call, the loop over args: build_expr(arg, None), then by Value
\* nothing (Unit), the address p of the temporary the aggregate was built
\* in (Aggregate), the value (Scalar).  Argument i has the type args[i].
RECURSIVE call_args(_, _, _)
call_args(tys, lltys, args) ==
  IF Len(args) = 0 THEN <<>>
  ELSE LET i == Len(args)
           rest == call_args(tys, lltys, SubSeq(args, 1, i - 1))
       IN CASE kind(tys[args[i]]) = "Unit" -> rest
            [] kind(tys[args[i]]) = "Aggregate" ->
                 Append(rest, Arg(LLPointerTo(args[i]), "tmp", i))
            [] kind(tys[args[i]]) = "Scalar" ->
                 Append(rest, Arg(lltys[args[i]], "value", i))

\* build_call(func, args, sret): args2, with sret pushed last when given.
build_call_NoSret(tys, lltys, args, sr) == call_args(tys, lltys, args)

build_call(tys, lltys, args, sr) ==
  LET args2 == call_args(tys, lltys, args)
  IN IF sr # NoOp THEN Append(args2, sr) ELSE args2

\* build_expr(e, dst) of a Call expression whose function returns ret:
\* Unit, build_unit calls with None; Aggregate, build_aggregate calls with
\* Some(p), p the destination or a fresh alloca, and the value is
\* Aggregate(p); Scalar, build_scalar calls with None.
build_expr_Call(tys, lltys, ret, args, dst) ==
  LET k == kind(tys[ret])
      p == IF dst # NoOp THEN dst ELSE Arg(LLPointerTo(ret), "alloca", 0)
  IN CASE k = "Unit" ->
            [op |-> "call", args2 |-> build_call(tys, lltys, args, NoOp),
             value |-> [k |-> "Unit", v |-> NoOp]]
       [] k = "Aggregate" ->
            [op |-> "call", args2 |-> build_call(tys, lltys, args, p),
             value |-> [k |-> "Aggregate", v |-> p]]
       [] k = "Scalar" ->
            [op |-> "call", args2 |-> build_call(tys, lltys, args, NoOp),
             value |-> [k |-> "Scalar", v |-> Arg(lltys[ret], "result", 0)]]

\* build: func_type of the declaration (LLVMAddFunction).
Build_func_type ==
  /\ status = "idle" /\ fty # NoOp /\ abi = NoOp
  /\ abi' = func_type(types, lltypes, fty)
  /\ UNCHANGED <<bld, cfvars, tyvars, memvars, exvars, fty, call>>

\* A call of the declared function is lowered by build_expr, with or
\* without a destination.  The call is typed: one argument per declared
\* parameter, of the parameter's type; a variadic function may get more.
Build_Call ==
  /\ status = "idle" /\ abi # NoOp
  /\ \E dst \in {NoOp, Arg(LLPointerTo(fty.ret), "local", 0)} :
       \E extra \in IF fty.var_args THEN {<<>>, <<1>>, <<3>>} ELSE {<<>>} :
         call' = [build_expr_Call(types, lltypes, fty.ret, fty.params \o extra, dst)
                    EXCEPT !.op = IF dst = NoOp THEN "call" ELSE "call_into"]
  /\ UNCHANGED <<bld, cfvars, tyvars, memvars, exvars, fty, abi>>

\* LLVMGetParam(llfunc, i) on the lowered signature: the parameter at
\* position i of the ABI parameter list (positions from 1 here, from 0 in
\* the source).  A position past the end of the list is undefined in the
\* backend: an assertion failure, or a read of whatever lies behind the
\* argument array.
LLVMGetParam_of(llfunc, i) ==
  IF i \in DOMAIN llfunc.params
    THEN {[status |-> "ok", slot |-> i, ty |-> llfunc.params[i]]}
    ELSE {[status |-> "abort", slot |-> i, ty |-> NoType],
          [status |-> "ok", slot |-> i, ty |-> NoType]}

\* Where a body names a parameter: build_scalar (a Scalar parameter),
\* build_aggregate (an Aggregate parameter), build_place.
ParamSites(k) ==
  CASE k = "Scalar" -> {"build_scalar", "build_place"}
    [] k = "Aggregate" -> {"build_aggregate", "build_place"}
    [] k = "Unit" -> {}

\* ExprKind::Param(i) in the body of the declared function: every site
\* calls LLVMGetParam with the declared index.
Build_Param ==
  /\ status = "idle" /\ abi # NoOp
  /\ \E i \in DOMAIN fty.params :
       \E site \in ParamSites(kind(types[fty.params[i]])) :
         \E got \in LLVMGetParam_of(abi, i) :
           lowered' = [op |-> "Param", site |-> site, i |-> i, out |-> got]
  /\ UNCHANGED <<bld, cfvars, tyvars, memvars, abivars>>

InitAbi ==
  /\ IdleCF /\ IdleMem /\ IdleEx /\ IdleBuild
  /\ types = AbiTypes
  /\ lltypes = TypeBuilder_new(types)
  /\ named = <<>> /\ tb = NoOp
  /\ fty \in FuncTypes
  /\ abi = NoOp
  /\ call = NoOp

NextAbi ==
  \/ Build_func_type
  \/ Build_Call

SpecAbi == InitAbi /\ [][NextAbi]_vars

\* The declaration of a function, then the parameter references of its body.
NextParams ==
  \/ Build_func_type
  \/ Build_Param

SpecParams == InitAbi /\ [][NextParams]_vars

\* -------------------------------------------------------------- ABI claims
\* The declared parameters that get an ABI slot, in declared order.
NonUnitParams == SelectSeq(fty.params, LAMBDA ty : kind(types[ty]) # "Unit")

\* C6: the lowered signature of a FuncType is the declared parameters in
\* order, Unit ones removed, Aggregate ones as a pointer to the lowered
\* type, Scalar ones by value; then one trailing pointer (the indirect
\* return slot) iff the return type is Aggregate; the direct return is void
\* for a Unit or Aggregate return type and the lowered return type otherwise.
C6_AbiSignature ==
  abi # NoOp =>
    LET n == Len(NonUnitParams)
        agg == kind(types[fty.ret]) = "Aggregate"
    IN /\ Len(abi.params) = n + (IF agg THEN 1 ELSE 0)
       /\ \A j \in 1..n :
            abi.params[j] = IF kind(types[NonUnitParams[j]]) = "Aggregate"
                              THEN LLPointerTo(NonUnitParams[j])
                              ELSE lltypes[NonUnitParams[j]]
       /\ agg => abi.params[n + 1] = LLPointerTo(fty.ret)
       /\ abi.ret = IF kind(types[fty.ret]) = "Scalar" THEN lltypes[fty.ret] ELSE LLVoid
       /\ abi.var_args = fty.var_args

C6_Witness ==
  /\ abi # NoOp
  /\ fty.params = <<2, 3, 1>> /\ fty.ret = 3
  /\ abi.params = <<LLPointerTo(3), LLInt(32), LLPointerTo(3)>>
  /\ abi.ret = LLVoid

\* C7: a lowered call of a non-variadic function passes exactly as many
\* arguments as the callee's lowered signature has parameters: one per
\* non-Unit argument, in order (an address for an Aggregate, the value for a
\* Scalar), plus one trailing destination address iff the return type is
\* Aggregate, and that destination is the call's result location.
C7_CallMatchesSignature ==
  (call # NoOp /\ ~fty.var_args) =>
    LET n == Len(NonUnitParams)
        agg == kind(types[fty.ret]) = "Aggregate"
        nonUnit == {i \in DOMAIN fty.params : kind(types[fty.params[i]]) # "Unit"}
    IN /\ Len(call.args2) = Len(abi.params)
       /\ \A j \in DOMAIN call.args2 : call.args2[j].ty = abi.params[j]
       /\ Len(call.args2) = n + (IF agg THEN 1 ELSE 0)
       /\ \A j \in 1..n :
            /\ call.args2[j].v[2] \in nonUnit
            /\ fty.params[call.args2[j].v[2]] = NonUnitParams[j]
            /\ j > 1 => call.args2[j - 1].v[2] < call.args2[j].v[2]
            /\ call.args2[j].v[1] =
                 IF kind(types[NonUnitParams[j]]) = "Aggregate" THEN "tmp" ELSE "value"
       /\ agg => /\ call.value.k = "Aggregate"
                 /\ call.value.v = call.args2[n + 1]
                 /\ call.args2[n + 1].v[1] =
                      IF call.op = "call_into" THEN "local" ELSE "alloca"
       /\ ~agg => call.value.k # "Aggregate"

C7_Witness ==
  /\ call # NoOp /\ ~fty.var_args
  /\ fty.params = <<3, 2, 1>> /\ fty.ret = 3
  /\ call.op = "call_into"
  /\ Len(call.args2) = 3
  /\ call.args2[3].v = <<"local", 0>>

\* ==================================================== scalar expressions
\* SpecScalar lowers one scalar expression at a time (build_scalar) and
\* records the instruction chosen and the value it computes.
\*
\* The value of an N-bit integer type is its N bits, least significant first.
RECURSIVE ToBits(_, _)
ToBits(n, w) == IF w = 0 THEN <<>> ELSE <<n % 2>> \o ToBits(n \div 2, w - 1)

\* The two readings of a bit pattern: two's complement and unsigned.
RECURSIVE Signed(_)
Signed(bits) == IF Len(bits) = 1 THEN -bits[1] ELSE bits[1] + 2 * Signed(Tail(bits))

RECURSIVE Unsigned(_)
Unsigned(bits) == IF Len(bits) = 0 THEN 0 ELSE bits[1] + 2 * Unsigned(Tail(bits))

IntNames == {"I8", "I16", "I32", "I64"}
FloatNames == {"F32", "F64"}
ScalarNames == {"Bool"} \cup IntNames \cup FloatNames

\* The operand types of a cast: every scalar Type and two pointer types.
CastTypes == {IRScalar(n) : n \in ScalarNames} \cup {IRPointer(1), IRPointer(2)}

\* Operand values, as signed numbers; an operand of type T is ToBits(n, width).
InputInts == {-129, -128, -1, 0, 1, 44, 127, 128, 255, 300}

\* Width in bits of the lowered type of a scalar Type.
BitWidth(ty) ==
  CASE ty.t \in {"Bool"} \cup IntNames -> build_type_scalar(ty).bits
    [] ty.t = "F32" -> 32
    [] ty.t \in {"F64", "Pointer"} -> 64

Operands(ty) ==
  IF ty.t = "Bool" THEN {<<0>>, <<1>>}
  ELSE {ToBits(n, BitWidth(ty)) : n \in InputInts}

\* LLVMBuildSExt / LLVMBuildZExt / LLVMBuildTrunc on a bit pattern.
LLVMBuildZExt(v, w) == v \o [i \in 1..(w - Len(v)) |-> 0]

LLVMBuildSExt(v, w) == v \o [i \in 1..(w - Len(v)) |-> v[Len(v)]]

LLVMBuildTrunc(v, w) == SubSeq(v, 1, w)

\* A conversion whose numeric result is not modelled (int <-> float, float
\* <-> float): the instruction applied to the operand.
Converted(instr, v) == [conv |-> instr, of |-> v]

Lowered(instr, v) == [status |-> "ok", instr |-> instr, v |-> v]
Unimplemented == [status |-> "unimplemented", instr |-> "none", v |-> <<>>]

\* build_scalar, ExprKind::Cast arm: match (src_ty, dst_ty).
IdentityPairs == {<<n, n>> : n \in IntNames \cup FloatNames}
SExtPairs == {<<"I8", "I16">>, <<"I8", "I32">>, <<"I8", "I64">>,
              <<"I16", "I32">>, <<"I16", "I64">>, <<"I32", "I64">>}
TruncPairs == {<<"I64", "I32">>, <<"I64", "I16">>, <<"I64", "I8">>,
               <<"I32", "I16">>, <<"I32", "I8">>, <<"I16", "I8">>}

build_scalar_Cast(src_ty, dst_ty, v) ==
  LET p == <<src_ty.t, dst_ty.t>>
  IN CASE p \in IdentityPairs -> Lowered("none", v)
       [] p \in SExtPairs -> Lowered("sext", LLVMBuildSExt(v, BitWidth(dst_ty)))
       [] p \in TruncPairs -> Lowered("trunc", LLVMBuildTrunc(v, BitWidth(dst_ty)))
       [] p \in {<<"I32", "F32">>, <<"I32", "F64">>} -> Lowered("sitofp", Converted("sitofp", v))
       [] p = <<"F32", "I32">> -> Lowered("fptosi", Converted("fptosi", v))
       [] p = <<"F32", "F64">> -> Lowered("fpext", Converted("fpext", v))
       [] p = <<"F64", "F32">> -> Lowered("fptrunc", Converted("fptrunc", v))
       [] p = <<"Pointer", "Pointer">> -> Lowered("pointercast", v)
       [] OTHER -> Unimplemented

\* An expression handed to build_scalar and not lowered yet.
Pending == [status |-> "pending", instr |-> "none", v |-> <<>>]

\* Cast(e, ty) for an operand e of type src with value x.
Casts ==
  UNION {{[op |-> "Cast", src |-> src, dst |-> dst, x |-> x, out |-> Pending] :
            dst \in CastTypes, x \in Operands(src)} :
         src \in CastTypes}

\* build_scalar(Cast(e, ty)).
Build_Cast ==
  /\ lowered.op = "Cast" /\ lowered.out = Pending
  /\ lowered' = [lowered EXCEPT
                   !.out = build_scalar_Cast(lowered.src, lowered.dst, lowered.x)]
  /\ UNCHANGED <<bld, cfvars, tyvars, memvars, abivars>>

\* ------------------------------------------------------ binary operators
\* Binop, with Cmp(pred) written as its predicate.
Predicates == {"Eq", "Ne", "Ge", "Le", "Gt", "Lt"}
Binops == {"Add", "Sub", "Mul", "Div", "And", "Shl", "Shr"} \cup Predicates

\* build_scalar, ExprKind::Binary arm for ScalarKind::Int: the instruction
\* built for each operator.
build_scalar_Binary(op) ==
  CASE op = "Add" -> "add"
    [] op = "Sub" -> "sub"
    [] op = "Mul" -> "mul"
    [] op = "Div" -> "sdiv"
    [] op = "And" -> "and"
    [] op = "Shl" -> "shl"
    [] op = "Shr" -> "lshr"
    [] op = "Eq" -> "icmp eq"
    [] op = "Ne" -> "icmp ne"
    [] op = "Ge" -> "icmp sge"
    [] op = "Le" -> "icmp sle"
    [] op = "Gt" -> "icmp sgt"
    [] op = "Lt" -> "icmp slt"

Abs(n) == IF n < 0 THEN -n ELSE n
\* Quotient rounded toward zero.
Quot(a, b) == IF (a < 0) = (b < 0) THEN Abs(a) \div Abs(b) ELSE -(Abs(a) \div Abs(b))
Fill(n, b) == [i \in 1..n |-> b]
Bit(c) == IF c THEN <<1>> ELSE <<0>>

\* What an instruction whose result is undefined or poison may produce.
UndefBits(w) == {ToBits(0, w), ToBits(-1, w)}

\* The results the backend's instructions compute on two w-bit operands.
Exec(instr, x, y) ==
  LET w == Len(x)
      n == Unsigned(y)
  IN CASE instr = "add" -> {ToBits(Signed(x) + Signed(y), w)}
       [] instr = "sub" -> {ToBits(Signed(x) - Signed(y), w)}
       [] instr = "mul" -> {ToBits(Signed(x) * Signed(y), w)}
       [] instr = "sdiv" ->
            IF Signed(y) = 0 \/ (Signed(y) = -1 /\ x = Fill(w - 1, 0) \o <<1>>)
              THEN UndefBits(w)
              ELSE {ToBits(Quot(Signed(x), Signed(y)), w)}
       [] instr = "udiv" ->
            IF n = 0 THEN UndefBits(w) ELSE {ToBits(Unsigned(x) \div n, w)}
       [] instr = "and" -> {[i \in 1..w |-> x[i] * y[i]]}
       [] instr = "shl" ->
            IF n >= w THEN UndefBits(w) ELSE {Fill(n, 0) \o SubSeq(x, 1, w - n)}
       [] instr = "lshr" ->
            IF n >= w THEN UndefBits(w) ELSE {SubSeq(x, n + 1, w) \o Fill(n, 0)}
       [] instr = "ashr" ->
            IF n >= w THEN UndefBits(w) ELSE {SubSeq(x, n + 1, w) \o Fill(n, x[w])}
       [] instr = "icmp eq" -> {Bit(x = y)}
       [] instr = "icmp ne" -> {Bit(x # y)}
       [] instr = "icmp sge" -> {Bit(Signed(x) >= Signed(y))}
       [] instr = "icmp sle" -> {Bit(Signed(x) <= Signed(y))}
       [] instr = "icmp sgt" -> {Bit(Signed(x) > Signed(y))}
       [] instr = "icmp slt" -> {Bit(Signed(x) < Signed(y))}

\* The integer types the operands of a binary operator are drawn from.
BinaryTypes == {IRScalar("I8"), IRScalar("I16")}

\* Binary(op, x, y) on operands of one integer type.
Binaries ==
  UNION {{[op |-> "Binary", binop |-> op, ty |-> ty, x |-> x, y |-> y, out |-> Pending] :
            op \in Binops, x \in Operands(ty), y \in Operands(ty)} :
         ty \in BinaryTypes}

\* build_scalar(Binary(op, x, y)) on Int operands, and the instruction run.
Build_Binary ==
  /\ lowered.op = "Binary" /\ lowered.out = Pending
  /\ \E r \in Exec(build_scalar_Binary(lowered.binop), lowered.x, lowered.y) :
       lowered' = [lowered EXCEPT
                     !.out = Lowered(build_scalar_Binary(lowered.binop), r)]
  /\ UNCHANGED <<bld, cfvars, tyvars, memvars, abivars>>

\* ------------------------------------------------------- integer literals
\* ExprKind::Integer(String): the literal's text, a sequence of characters.
MaxText == 3
Alphabet == {"0", "3", "a", "-"}
Texts == UNION {[1..n -> Alphabet] : n \in 1..MaxText}
DigitValue == ("0" :> 0) @@ ("3" :> 3)
IsDigit(c) == c \in DOMAIN DigitValue

\* The integer types a literal is declared with.
LiteralTypes == {IRScalar("I8"), IRScalar("I16")}

Const(v) == [status |-> "ok", instr |-> "const", v |-> v]
Failed(how) == [status |-> how, instr |-> "none", v |-> <<>>]

\* The backend's string-to-integer conversion in radix 10, in w bits: an
\* optional sign, then value = value * 10 + digit for every character,
\* wrapping at 2^w, negated for '-'.  A character that is no digit is
\* checked by an assertion only; without it its digit is the all-ones word.
APIntDigit(c) == IF IsDigit(c) THEN DigitValue[c] ELSE -1

RECURSIVE APIntAccumulate(_, _, _)
APIntAccumulate(chars, acc, w) ==
  IF Len(chars) = 0 THEN acc
  ELSE APIntAccumulate(Tail(chars), (acc * 10 + APIntDigit(chars[1])) % (2 ^ w), w)

Unsigned_part(text) == IF text[1] = "-" THEN Tail(text) ELSE text

APIntAsserts(text) ==
  \/ Len(Unsigned_part(text)) = 0
  \/ \E i \in DOMAIN Unsigned_part(text) : ~IsDigit(Unsigned_part(text)[i])

\* LLVMConstIntOfStringAndSize(lltype, ptr, len, 10): the constants it can
\* return, and whether an assertion-enabled backend stops instead.
LLVMConstIntOfStringAndSize(w, text) ==
  LET mag == APIntAccumulate(Unsigned_part(text), 0, w)
      val == IF text[1] = "-" THEN -mag ELSE mag
  IN {Const(ToBits(val, w))} \cup (IF APIntAsserts(text) THEN {Failed("abort")} ELSE {})

\* str::parse::<i64>: an optional sign and one or more digits (texts this
\* short cannot leave the range of i64).
RECURSIVE DecimalValue(_, _)
DecimalValue(chars, acc) ==
  IF Len(chars) = 0 THEN acc
  ELSE DecimalValue(Tail(chars), acc * 10 + DigitValue[chars[1]])

ParsesAsI64(text) ==
  /\ Len(Unsigned_part(text)) > 0
  /\ \A i \in DOMAIN Unsigned_part(text) : IsDigit(Unsigned_part(text)[i])

parse_i64(text) ==
  LET mag == DecimalValue(Unsigned_part(text), 0)
  IN IF text[1] = "-" THEN -mag ELSE mag

\* build_value, ExprKind::Integer arm (codegen.rs): parse as i64, error()
\* on failure, else LLVMConstInt(lltype, i as u64, 0).
build_value_Integer(w, text) ==
  IF ParsesAsI64(text) THEN {Const(ToBits(parse_i64(text), w))} ELSE {Failed("error")}

\* The three places that lower an integer literal.
LiteralSites == {"build_scalar", "ConstBuilder_build", "build_value"}

lower_Integer(site, w, text) ==
  IF site = "build_value" THEN build_value_Integer(w, text)
  ELSE LLVMConstIntOfStringAndSize(w, text)

Integers ==
  {[op |-> "Integer", site |-> site, ty |-> ty, text |-> text, out |-> Pending] :
     site \in LiteralSites, ty \in LiteralTypes, text \in Texts}

Build_Integer ==
  /\ lowered.op = "Integer" /\ lowered.out = Pending
  /\ \E out \in lower_Integer(lowered.site, BitWidth(lowered.ty), lowered.text) :
       lowered' = [lowered EXCEPT !.out = out]
  /\ UNCHANGED <<bld, cfvars, tyvars, memvars, abivars>>

\* ------------------------------------------------------ place resolution
\* The kinds of expression handed to build_place: the seven it has an arm
\* for, and kinds it has none for.
PlaceKinds == {"Local", "Param", "Index", "Field", "Deref", "Func", "EnumField"}
OtherKinds == {"Integer", "Binary", "Call", "Cast", "AddressOf", "Struct",
               "EnumCall", "EnumTag", "Null", "Unit"}

\* The type of the expression, and of its operand x where it has one.
PlaceTypes == {IRScalar("I32"), IRPointer(1), IRStruct(<<1>>), IREnum(<< <<1>> >>),
               IRArray(1)}

\* The operand types a typed program gives each kind (Unit: no operand).
BaseTypes(k) ==
  CASE k = "Index" -> {t \in PlaceTypes : t.t \in {"Array", "Pointer"}}
    [] k = "Field" -> {t \in PlaceTypes : t.t \in {"Struct", "Pointer"}}
    [] k = "EnumField" -> {t \in PlaceTypes : t.t = "Enum"}
    [] OTHER -> {IRUnit}

Places ==
  UNION {{[op |-> "Place", kind |-> k, ty |-> ty, base |-> b, out |-> Pending] :
            ty \in PlaceTypes, b \in BaseTypes(k)} :
         k \in PlaceKinds \cup OtherKinds}

\* What the returned LLVMValueRef is: the address of the place's storage,
\* or the value of a parameter.
Address == <<"address">>
ParamValue == <<"value">>

\* LLVMGetParam(llfunc, i): an Aggregate parameter is passed as the address
\* of its storage, a Scalar one as its value.
LLVMGetParam(ty) == IF kind(ty) = "Aggregate" THEN Address ELSE ParamValue

\* StmtBuilder::build_place
build_place(k, ty, base) ==
  CASE k = "Local" -> Lowered("alloca", Address)
    [] k = "Param" -> Lowered("param", LLVMGetParam(ty))
    [] k = "Index" ->
         IF kind(base) = "Aggregate" \/ base.t = "Pointer"
           THEN Lowered("gep", Address) ELSE Failed("panic")
    [] k = "Field" ->
         IF base.t \in {"Tuple", "Struct", "Pointer"}
           THEN Lowered("structgep", Address) ELSE Failed("panic")
    [] k = "Deref" -> Lowered("scalar", Address)
    [] k = "Func" -> Lowered("func", Address)
    [] k = "EnumField" ->
         IF base.t = "Enum" THEN Lowered("structgep", Address) ELSE Failed("panic")
    [] OTHER -> Unimplemented

Build_Place ==
  /\ lowered.op = "Place" /\ lowered.out = Pending
  /\ lowered' = [lowered EXCEPT
                   !.out = build_place(lowered.kind, lowered.ty, lowered.base)]
  /\ UNCHANGED <<bld, cfvars, tyvars, memvars, abivars>>

\* ------------------------------------------------- build_expr by TypeKind
\* The expressions of each TypeKind handed to build_expr, and the
\* destinations: none, a local's storage, the indirect return slot.
ExprKinds ==
  [Unit |-> {"Unit", "Call"}, Scalar |-> {"Integer", "Call", "Local"},
   Aggregate |-> {"Struct", "Call", "Local", "Param"}]
Destinations == {None, "local", "LastParam"}

Exprs ==
  UNION {{[op |-> "Expr", e |-> [ty |-> ty, kind |-> k], dst |-> d, out |-> Pending] :
            k \in ExprKinds[ty], d \in Destinations} :
         ty \in TypeKind}

Build_Expr ==
  /\ lowered.op = "Expr" /\ lowered.out = Pending
  /\ LET r == build_expr(lowered.e, lowered.dst)
     IN lowered' = [lowered EXCEPT
                      !.out = [status |-> "ok", instr |-> "expr", v |-> r.code,
                               value |-> r.value]]
  /\ UNCHANGED <<bld, cfvars, tyvars, memvars, abivars>>

InitScalar ==
  /\ lowered \in Casts \cup Binaries \cup Integers \cup Places \cup Exprs
  /\ IdleCF /\ IdleTypes /\ IdleMem /\ IdleAbi /\ IdleBuild

NextScalar ==
  \/ Build_Cast
  \/ Build_Binary
  \/ Build_Integer
  \/ Build_Place
  \/ Build_Expr

SpecScalar == InitScalar /\ [][NextScalar]_vars

\* ------------------------------------------------ scalar expression claims
\* The fixed matrix of legal casts.
InMatrix(s, d) ==
  \/ s = d
  \/ s.t \in IntNames /\ d.t \in IntNames
  \/ s.t = "I32" /\ d.t \in FloatNames
  \/ s.t \in FloatNames /\ d.t = "I32"
  \/ s.t \in FloatNames /\ d.t \in FloatNames
  \/ s.t = "Pointer" /\ d.t = "Pointer"

\* C14: cast lowering accepts exactly the fixed matrix of (source,
\* destination) pairs and fails for every other pair; an identity cast is
\* accepted for every scalar type and returns the operand unchanged.
C14_CastMatrix ==
  (lowered.op = "Cast" /\ lowered.out # Pending) =>
    /\ (lowered.out.status = "ok") <=> InMatrix(lowered.src, lowered.dst)
    /\ lowered.src = lowered.dst =>
         lowered.out.status = "ok" /\ lowered.out.v = lowered.x

\* C15: between I8, I16, I32 and I64 a cast to the narrower type keeps the
\* low bits (the value modulo 2^w) and a cast to the wider type
\* sign-extends (the signed value is preserved).
C15_TruncAndSignExtend ==
  (lowered.op = "Cast" /\ lowered.out # Pending
     /\ lowered.src.t \in IntNames /\ lowered.dst.t \in IntNames
     /\ lowered.src # lowered.dst) =>
    LET ws == BitWidth(lowered.src)
        wd == BitWidth(lowered.dst)
        x == lowered.x
        r == lowered.out.v
    IN /\ lowered.out.status = "ok"
       /\ Len(r) = wd
       /\ wd < ws =>
            /\ r = SubSeq(x, 1, wd)
            /\ wd <= 16 => Unsigned(r) = Signed(x) % (2 ^ wd)
       /\ wd > ws =>
            /\ SubSeq(r, 1, ws) = x
            /\ \A i \in (ws + 1)..wd : r[i] = x[ws]
            /\ wd <= 32 => Signed(r) = Signed(x)

\* I8 0xFF -> I32 is -1.
C15_Witness ==
  /\ lowered.op = "Cast" /\ lowered.src.t = "I8" /\ lowered.dst.t = "I32"
  /\ lowered.out.status = "ok"
  /\ lowered.x = ToBits(255, 8)
  /\ Signed(lowered.out.v) = -1

\* Operators on Int operands with distinct signed and unsigned forms, and
\* the signed form of each.
SignedForm ==
  [Div |-> "sdiv", Shr |-> "ashr", Ge |-> "icmp sge", Le |-> "icmp sle",
   Gt |-> "icmp sgt", Lt |-> "icmp slt"]

\* C16: every binary operator on Int operands that has distinct signed and
\* unsigned forms (division, right shift, Ge, Le, Gt, Lt) is lowered to its
\* signed form, so the result for negative operands is the signed result.
C16_SignedIntOps ==
  (lowered.op = "Binary" /\ lowered.out # Pending
     /\ lowered.binop \in DOMAIN SignedForm) =>
    /\ lowered.out.instr = SignedForm[lowered.binop]
    /\ lowered.out.v \in Exec(SignedForm[lowered.binop], lowered.x, lowered.y)

\* A literal's text is a number of its declared w-bit type.
IsNumberOf(text, w) ==
  /\ ParsesAsI64(text)
  /\ parse_i64(text) >= -(2 ^ (w - 1))
  /\ parse_i64(text) < 2 ^ w

\* C17: when the text of an integer literal cannot be parsed as a number of
\* its declared type, lowering stops with an error and no constant is
\* produced from the text.
C17_UnparsableLiteralStops ==
  (lowered.op = "Integer" /\ lowered.out # Pending
     /\ ~IsNumberOf(lowered.text, BitWidth(lowered.ty))) =>
    lowered.out.status \in {"error", "abort"}

\* ------------------------------------------------------- enum body claim
HasArguments(ety) == \E v \in DOMAIN ety.variants : Len(ety.variants[v]) > 0

\* C18: set_enum_body gives an enum the body [payload record, 1-byte tag]
\* exactly when one of its variants has arguments, and the body [tag] alone
\* when no variant carries arguments (every enum whose variants all have
\* zero arguments included).
C18_EnumBodyShape ==
  (Len(types) > 0 /\ Subject.t = "Enum") =>
    LET body == lltypes[SubjectId].elems
    IN IF HasArguments(Subject)
         THEN Len(body) = 2 /\ body[1].k = "struct" /\ body[2] = LLVMInt8Type
         ELSE body = <<LLVMInt8Type>>

\* ======================================================= the type build
\* SpecTypes runs TypeBuilder::new step by step on a type table whose
\* entries may name any TypeId of the table, smaller or greater than their
\* own: one build_type per TypeId, then one body per struct and enum.
MaxTypes == 3

\* The entries of a table of n types: I32, and for every TypeId j a pointer
\* to j, an array of j, a struct with one field of type j, an enum with one
\* variant with one argument of type j, and fn(j) -> j.
Entries(n) ==
  {IRScalar("I32")}
    \cup {IRPointer(j) : j \in 1..n} \cup {IRArray(j) : j \in 1..n}
    \cup {IRStruct(<<j>>) : j \in 1..n} \cup {IREnum(<< <<j>> >>) : j \in 1..n}
    \cup {IRFunc(<<j>>, j) : j \in 1..n}

IsNamed(ty) == ty.t \in {"Struct", "Enum"}

\* The TypeId an entry refers to (0: none).
Ref(ty) ==
  CASE ty.t = "Pointer" -> ty.to
    [] ty.t = "Array" -> ty.elem
    [] ty.t = "Struct" -> ty.fields[1]
    [] ty.t = "Enum" -> ty.variants[1][1]
    [] ty.t = "Func" -> ty.ret
    [] OTHER -> 0

\* A table a typed program can have: following references from any entry
\* ends, where a pointer or function type ends at the struct or enum it
\* names (no type contains itself by value, no pointer type is its own
\* pointee).
RECURSIVE Founded(_, _, _)
Founded(tys, id, fuel) ==
  /\ fuel > 0
  /\ \/ Ref(tys[id]) = 0
     \/ tys[id].t \in {"Pointer", "Func"} /\ IsNamed(tys[Ref(tys[id])])
     \/ Founded(tys, Ref(tys[id]), fuel - 1)

TypeTables ==
  {tys \in [1..MaxTypes -> Entries(MaxTypes)] :
     \A id \in 1..MaxTypes : Founded(tys, id, MaxTypes + 1)}

\* Lowered types as the backend identifies them: a named struct by its
\* identity in the context, every other type by its structure.
LLNamed(n) == [k |-> "named", n |-> n]
LLVMPointerType(t) == [k |-> "ptr", to |-> t]
LLVMArrayType(t) == [k |-> "array", elem |-> t]
LLVMFunctionType(ret, params) == [k |-> "func", ret |-> ret, params |-> params]
\* LLVMStructCreateNamed: a new opaque struct in the context, made for `id`.
LLVMStructCreateNamed(ctx, id) ==
  Append(ctx, [of |-> id, opaque |-> TRUE, body |-> <<>>])

\* LLVMStructSetBody on the named struct n.
LLVMStructSetBody(ctx, n, elems) ==
  [ctx EXCEPT ![n] = [of |-> @.of, opaque |-> FALSE, body |-> elems]]

Built(ty, ctx) == [ok |-> TRUE, ty |-> ty, named |-> ctx]
Panicked(ctx) == [ok |-> FALSE, ty |-> NoType, named |-> ctx]

\* self.lltype(ty): self.lltypes[ty], which panics out of bounds.
lltype_ok(lltys, ty) == ty <= Len(lltys)

\* func_type as build_type calls it for Type::Func: every parameter and the
\* return type are read with self.lltype.
build_type_Func(tys, lltys, ctx, func) ==
  LET ids == {func.params[i] : i \in DOMAIN func.params} \cup {func.ret}
      lowered_param(id) == IF kind(tys[id]) = "Aggregate"
                   THEN LLVMPointerType(lltys[id]) ELSE lltys[id]
      params == [i \in DOMAIN func.params |-> lowered_param(func.params[i])]
  IN IF \E id \in ids : ~lltype_ok(lltys, id)
       THEN Panicked(ctx)
       ELSE IF kind(tys[func.ret]) = "Aggregate"
              THEN Built(LLVMFunctionType(LLVoid, Append(params, lowered_param(func.ret))), ctx)
              ELSE Built(LLVMFunctionType(lltys[func.ret], params), ctx)

\* TypeBuilder::build_type(ty): the cached lowered type when lltypes has
\* one for ty, else a type built from the entry, recursively.
RECURSIVE build_type(_, _, _, _)
build_type(tys, lltys, ctx, ty) ==
  IF ty <= Len(lltys) THEN Built(lltys[ty], ctx)
  ELSE CASE tys[ty].t = "I32" -> Built(LLInt(32), ctx)
         [] tys[ty].t = "Pointer" ->
              LET r == build_type(tys, lltys, ctx, tys[ty].to)
              IN [r EXCEPT !.ty = IF r.ok THEN LLVMPointerType(r.ty) ELSE NoType]
         [] tys[ty].t = "Array" ->
              LET r == build_type(tys, lltys, ctx, tys[ty].elem)
              IN [r EXCEPT !.ty = IF r.ok THEN LLVMArrayType(r.ty) ELSE NoType]
         [] tys[ty].t = "Func" -> build_type_Func(tys, lltys, ctx, tys[ty])
         [] IsNamed(tys[ty]) ->
              Built(LLNamed(Len(ctx) + 1), LLVMStructCreateNamed(ctx, ty))

\* TypeBuilder::new, first loop: lltypes.push(build_type(type_id)).
New_build_type ==
  /\ tb.op = "types"
  /\ LET r == build_type(types, lltypes, named, Len(lltypes) + 1)
     IN IF r.ok
          THEN /\ lltypes' = Append(lltypes, r.ty)
               /\ named' = r.named
               /\ tb' = IF Len(lltypes) + 1 = Len(types)
                          THEN [op |-> "bodies", id |-> 1] ELSE tb
          ELSE /\ tb' = [op |-> "panic", id |-> Len(lltypes) + 1]
               /\ UNCHANGED <<lltypes, named>>
  /\ UNCHANGED <<bld, cfvars, memvars, abivars, exvars, types>>

\* The body set_struct_body / set_enum_body give the type id.
BodyOf(tys, lltys, id) ==
  IF tys[id].t = "Struct"
    THEN [i \in DOMAIN tys[id].fields |-> lltys[tys[id].fields[i]]]
    ELSE <<LLVMStructType([i \in DOMAIN tys[id].variants[1] |->
                             lltys[tys[id].variants[1][i]]]),
           LLVMInt8Type>>

\* TypeBuilder::new, second loop: the body of every struct and enum.
New_set_body ==
  /\ tb.op = "bodies"
  /\ named' = IF IsNamed(types[tb.id])
                THEN LLVMStructSetBody(named, lltypes[tb.id].n, BodyOf(types, lltypes, tb.id))
                ELSE named
  /\ tb' = IF tb.id = Len(types) THEN [op |-> "built", id |-> 0]
           ELSE [tb EXCEPT !.id = @ + 1]
  /\ UNCHANGED <<bld, cfvars, memvars, abivars, exvars, types, lltypes>>

InitTypes ==
  /\ IdleCF /\ IdleMem /\ IdleAbi /\ IdleEx /\ IdleBuild
  /\ types \in TypeTables
  /\ lltypes = <<>>
  /\ named = <<>>
  /\ tb = [op |-> "types", id |-> 0]

NextTypes ==
  \/ New_build_type
  \/ New_set_body

SpecTypes == InitTypes /\ [][NextTypes]_vars

\* ----------------------------------------------------- type build claim
\* The lowered type a reference to TypeId j stands for in signatures.
AbiOf(j) ==
  IF kind(types[j]) = "Aggregate" THEN LLVMPointerType(lltypes[j]) ELSE lltypes[j]

\* Entry id of the table resolves its reference to the referenced TypeId's
\* one lowered type.
Resolves(id) ==
  LET ty == types[id]
      ll == lltypes[id]
      j == Ref(ty)
  IN CASE ty.t = "Pointer" -> ll = LLVMPointerType(lltypes[j])
       [] ty.t = "Array" -> ll = LLVMArrayType(lltypes[j])
       [] ty.t = "Struct" -> ll.k = "named" /\ named[ll.n].body = <<lltypes[j]>>
       [] ty.t = "Enum" ->
            ll.k = "named"
              /\ named[ll.n].body = <<LLVMStructType(<<lltypes[j]>>), LLVMInt8Type>>
       [] ty.t = "Func" ->
            /\ ll.k = "func"
            /\ ll.params[1] = AbiOf(j)
            /\ IF kind(types[j]) = "Aggregate"
                 THEN ll.ret = LLVoid /\ ll.params[2] = AbiOf(j)
                 ELSE ll.ret = lltypes[j]
       [] OTHER -> ll = LLInt(32)

\* C19: after the type build each TypeId has exactly one lowered type and
\* every reference to a TypeId from another type resolves to it, also when
\* the referenced TypeId is greater than the referencing one; no struct or
\* enum gets a second placeholder that never receives a body, and no
\* forward reference makes the build fail.
C19_OneLoweredTypePerId ==
  /\ tb.op # "panic"
  /\ tb.op = "built" =>
       /\ Len(lltypes) = Len(types)
       /\ \A id \in DOMAIN types : Resolves(id)
       /\ \A n \in DOMAIN named : ~named[n].opaque
       /\ Len(named) = Cardinality({id \in DOMAIN types : IsNamed(types[id])})

\* -------------------------------------------------- place resolution claim
\* The expressions place resolution has an address for.
Addressable(k, ty) ==
  \/ k \in {"Local", "Deref", "Index", "Field", "EnumField", "Func"}
  \/ k = "Param" /\ (ty.t = "Pointer" \/ kind(ty) = "Aggregate")

\* C20: place resolution returns an address for exactly Local, Param of
\* pointer or Aggregate type, Deref, Index, Field, EnumField and Func, and
\* aborts for any other expression, a Param of non-pointer Scalar type
\* included, instead of returning a value as an address.
C20_PlaceKinds ==
  (lowered.op = "Place" /\ lowered.out # Pending) =>
    (lowered.out.status = "ok") <=> Addressable(lowered.kind, lowered.ty)

\* ------------------------------------------------------- build_expr claim
\* The instructions of a code sequence that write to location d: a store to
\* d, or a call given d as its trailing destination argument.
WritesTo(code, d) ==
  {i \in DOMAIN code : code[i].op \in {"store", "call"} /\ code[i].p = d}
Writes(code) ==
  {i \in DOMAIN code : code[i].op = "store" \/ (code[i].op = "call" /\ code[i].p # "")}

BreakTargets == [i \in DOMAIN LoopBodies |-> LoopBodies[i].done]
ContinueTargets ==
  [i \in DOMAIN LoopBodies |->
     IF LoopBodies[i].kind = "for_body" THEN LoopBodies[i].tail ELSE LoopBodies[i].head]

\* C23: at every point of lowering a function body the break stack and the
\* continue stack have the same depth, the number of loop bodies being
\* lowered; both are empty when lowering starts; and once a statement is
\* lowered (nested loops included) both hold what they held before it: they
\* hold the targets of the loops still enclosing the builder, and nothing else.
C23_StacksFollowLoopBodies ==
  /\ Len(break_dest) = Len(continue_dest)
  /\ Len(break_dest) = Len(LoopBodies)
  /\ last.stmt = "entry" => break_dest = <<>> /\ continue_dest = <<>>
  /\ break_dest = BreakTargets
  /\ continue_dest = ContinueTargets
  /\ Len(frames) = 0 => break_dest = <<>> /\ continue_dest = <<>>

\* A While nested in the body of a For has just been lowered: the stacks
\* hold the For's targets alone, as before the While.
C23_Witness ==
  /\ last.stmt = "WhileDone"
  /\ Len(frames) = 1 /\ Top.kind = "for_body"
  /\ break_dest = <<Top.done>>
  /\ continue_dest = <<Top.tail>>
  /\ Cardinality(loops) = 2

\* ------------------------------------------------ terminators at return
\* C25: when build_func_body returns, no basic block is left without a
\* terminator: every block ends in a branch or a return, and a body whose
\* last insertion block has no terminator gets a void return appended,
\* whatever the function's return type.
C25_NoBlockLeftOpen ==
  (status = "done" /\ last.stmt = "Finish") =>
    /\ \A b \in DOMAIN blocks :
         /\ blocks[b] # <<>>
         /\ IsTerminator(blocks[b][Len(blocks[b])])
    /\ LastCode = IF TerminatorIsNull(SubSeq(blocks[last.blk], 1, last.at))
                    THEN <<LLVMBuildRetVoid>>
                    ELSE <<>>

\* A function returning a scalar whose body ends in an If: the If's done
\* block has no terminator and gets the void return.
C25_Witness ==
  /\ status = "done" /\ last.stmt = "Finish" /\ last.prev = "IfDone"
  /\ func_ret = "Scalar"
  /\ Len(blocks) = 3
  /\ LastCode = <<LLVMBuildRetVoid>>
  /\ blocks[3] = <<LLVMBuildRetVoid>>

\* ------------------------------------------------- parameter references
\* The ABI position that carries declared parameter i: the count of non-Unit
\* parameters among the first i (func_type skips the Unit ones).
Carrier(i) ==
  Len(SelectSeq(SubSeq(fty.params, 1, i), LAMBDA ty : kind(types[ty]) # "Unit"))

\* C24: a reference to declared parameter i (as a scalar value, as an
\* aggregate source or as a place) resolves to the ABI parameter that
\* carries declared parameter i, also when a Unit-typed parameter precedes
\* it; never to another parameter, to the indirect return slot or to a slot
\* past the end of the ABI parameter list.
C24_ParamResolvesToCarrier ==
  lowered.op = "Param" =>
    /\ lowered.out.status = "ok"
    /\ lowered.out.slot = Carrier(lowered.i)
    /\ lowered.out.slot \in 1..Len(NonUnitParams)

\* ================================================================== build
\* SpecBuild runs build (llvm.rs 47-68) on a module: a type table, a table
\* of constants, up to MaxFuncs declarations and the table of bodies.
MaxFuncs == 3

\* Module.types: a Scalar, Unit, an Aggregate and the type of the constants.
ModuleTypes == <<IRScalar("I32"), IRUnit, IRStruct(<<1, 1>>), IRScalar("I8")>>

\* Module.consts: integer literals of type I8 (TypeId 4).
ModuleConsts == <<[ty |-> 4, text |-> <<"3">>], [ty |-> 4, text |-> <<"3", "0">>]>>

\* The function types of the declarations.
DeclTypes ==
  {[params |-> <<1>>, ret |-> 1, var_args |-> FALSE],
   [params |-> <<3, 2>>, ret |-> 3, var_args |-> FALSE]}

RECURSIVE Ascending(_)
Ascending(S) ==
  IF S = {} THEN <<>>
  ELSE LET m == CHOOSE x \in S : \A y \in S : x <= y
       IN <<m>> \o Ascending(S \ {m})

\* Module.func_bodys for n declarations: a FuncBody per declaration that has
\* one (an external function has none), in the order of their ids, as
\* ir0::build pushes them.  A body has one local and names one function of
\* the module, declared before or after it.
FuncBodys(n) ==
  UNION {{[k \in 1..Cardinality(S) |->
             [id |-> Ascending(S)[k], locals |-> 1, callee |-> c[Ascending(S)[k]]]] :
            c \in [S -> 1..n]} :
         S \in SUBSET (1..n)}

Modules ==
  UNION {{[func_decls |-> ds, func_bodys |-> bs] :
            ds \in [1..n -> DeclTypes], bs \in FuncBodys(n)} :
         n \in 1..MaxFuncs}

\* build_consts: ConstBuilder::build of every constant in table order.
build_consts(lltys, consts) ==
  [id \in DOMAIN consts |->
     CHOOSE c \in LLVMConstIntOfStringAndSize(lltys[consts[id].ty].bits, consts[id].text) :
       c.status = "ok"]

\* LLVMAddFunction(llmodule, name, lltype) for declaration i.
LLVMAddFunction(i, lltype) == [decl |-> i, ty |-> lltype]

llfuncs_push_front(llfuncs, llfunc) == <<llfunc>> \o llfuncs

\* llfuncs.push(llfunc)
llfuncs_push(llfuncs, llfunc) == Append(llfuncs, llfunc)

\* build_func_body up to b.build_block: llfunc = llfuncs[body.id], one alloca
\* per local in the function's entry block, a StmtBuilder with empty
\* break_dest and continue_dest; a name of function f in the body is
\* llfuncs[f].
build_func_body(llfuncs, body) ==
  [id |-> body.id,
   llfunc |-> llfuncs[body.id],
   locals |-> [j \in 1..body.locals |-> [fn |-> llfuncs[body.id].decl, alloca |-> j]],
   break_dest |-> <<>>,
   continue_dest |-> <<>>,
   callee |-> llfuncs[body.callee]]

\* let type_bld = &TypeBuilder::new(layout, &module.types)
Build_types ==
  /\ bld # NoOp /\ bld.pc = "types"
  /\ lltypes' = TypeBuilder_new(types)
  /\ bld' = [bld EXCEPT !.pc = "consts"]
  /\ UNCHANGED <<cfvars, memvars, abivars, exvars, types, named, tb>>

\* let llconsts = &build_consts(type_bld, &module.consts)
Build_consts ==
  /\ bld # NoOp /\ bld.pc = "consts"
  /\ bld' = [bld EXCEPT !.llconsts = build_consts(lltypes, ModuleConsts),
                        !.pc = "decls"]
  /\ UNCHANGED <<cfvars, tyvars, memvars, abivars, exvars>>

\* One iteration of `for func_decl in &module.func_decls`.
Build_decl ==
  /\ bld # NoOp /\ bld.pc = "decls"
  /\ LET m == bld.module
         i == Len(bld.llfuncs) + 1
         lltype == func_type(types, lltypes, m.func_decls[i])
     IN bld' = [bld EXCEPT
                  !.llfuncs = llfuncs_push(bld.llfuncs, LLVMAddFunction(i, lltype)),
                  !.pc = IF i < Len(m.func_decls) THEN "decls"
                         ELSE IF m.func_bodys = <<>> THEN "done" ELSE "bodies"]
  /\ UNCHANGED <<cfvars, tyvars, memvars, abivars, exvars>>

\* One iteration of `for func_body in &module.func_bodys`.
Build_body ==
  /\ bld # NoOp /\ bld.pc = "bodies"
  /\ LET m == bld.module
         k == Len(bld.bodies) + 1
     IN bld' = [bld EXCEPT
                  !.bodies = Append(bld.bodies, build_func_body(bld.llfuncs, m.func_bodys[k])),
                  !.pc = IF k < Len(m.func_bodys) THEN "bodies" ELSE "done"]
  /\ UNCHANGED <<cfvars, tyvars, memvars, abivars, exvars>>

InitBuild ==
  /\ IdleCF /\ IdleMem /\ IdleAbi /\ IdleEx
  /\ types = ModuleTypes
  /\ lltypes = <<>>
  /\ named = <<>> /\ tb = NoOp
  /\ bld \in {[pc |-> "types", module |-> m, llconsts |-> <<>>, llfuncs |-> <<>>,
               bodies |-> <<>>] : m \in Modules}

NextBuild ==
  \/ Build_types
  \/ Build_consts
  \/ Build_decl
  \/ Build_body

SpecBuild == InitBuild /\ [][NextBuild]_vars

\* C22: the layout of every TypeId, the constant table and the declaration
\* of every FuncDecl are complete before the first body is lowered, so a
\* body can name a function declared after it; bodies are lowered one at a
\* time in declaration order, each with its own locals and empty break and
\* continue stacks; the function-address table has one entry per FuncDecl,
\* at the declaration's index.
C22_TablesBeforeBodies ==
  LET m == bld.module
  IN /\ \A i \in DOMAIN bld.llfuncs :
          /\ i \in DOMAIN m.func_decls
          /\ bld.llfuncs[i] = LLVMAddFunction(i, func_type(types, lltypes, m.func_decls[i]))
     /\ (bld.bodies # <<>> \/ bld.pc \in {"bodies", "done"}) =>
          /\ lltypes = TypeBuilder_new(types)
          /\ DOMAIN bld.llconsts = DOMAIN ModuleConsts
          /\ \A id \in DOMAIN bld.llconsts : bld.llconsts[id].status = "ok"
          /\ DOMAIN bld.llfuncs = DOMAIN m.func_decls
     /\ Len(bld.bodies) <= Len(m.func_bodys)
     /\ \A k \in DOMAIN bld.bodies :
          LET b == bld.bodies[k]
          IN /\ b.id = m.func_bodys[k].id
             /\ k > 1 => bld.bodies[k - 1].id < b.id
             /\ b.llfunc.decl = b.id
             /\ b.callee.decl = m.func_bodys[k].callee
             /\ b.break_dest = <<>> /\ b.continue_dest = <<>>
             /\ Len(b.locals) = m.func_bodys[k].locals
             /\ \A k2 \in DOMAIN bld.bodies :
                  k2 # k => {b.locals[j] : j \in DOMAIN b.locals}
                              \cap {bld.bodies[k2].locals[j] : j \in DOMAIN bld.bodies[k2].locals} = {}
     /\ bld.pc = "done" => Len(bld.bodies) = Len(m.func_bodys)

\* Two bodies lowered, the first naming the function declared last.
C22_Witness ==
  /\ bld.pc = "done"
  /\ Len(bld.llfuncs) = 3
  /\ Len(bld.bodies) = 2
  /\ bld.bodies[1].id = 1 /\ bld.bodies[2].id = 2
  /\ bld.module.func_bodys[1].callee = 3
  /\ bld.bodies[1].callee = bld.llfuncs[3]


====
